---- MODULE Spec2Model ----
(***************************************************************************)
(* Hotel search platform: the aggregation pipeline of hotelService         *)
(* (searchHotels, enrichHotelsWithPricing, findBestBookingMatch and the    *)
(* scoring helpers) together with the cache store of config/redis.js.      *)
(*                                                                         *)
(* Representation.                                                         *)
(*  - A string is a sequence of one-character strings, so that             *)
(*    toLowerCase and the edit distance are computed character by          *)
(*    character as the code does.                                          *)
(*  - A rating is an integer number of tenths (45 is 4.5).                 *)
(*  - A latitude is an integer number of 1e-5 degrees; every record of the *)
(*    model lies on one meridian (equal longitudes), where the haversine   *)
(*    formula of calculateDistance reduces to R * |dphi|.                  *)
(*  - A score is an integer number of 1/ScoreScale, i.e. the real-valued   *)
(*    0.5/0.3/0.2 weighted sum without floating-point rounding.            *)
(*  - JavaScript null is the record null; an absent property is an absent  *)
(*    record field.                                                        *)
(***************************************************************************)
EXTENDS Integers, Sequences, FiniteSets, TLC

VARIABLES
    \* ---- one findBestBookingMatch call (specification MatchSpec)
    mPc,            \* "call" before the call, "return" after it
    mGoogle,        \* the googleHotel argument (SimilaritySpec: str1)
    mBooking,       \* the bookingHotels argument (SimilaritySpec: str2)
    mResult,        \* the returned record, or null (SimilaritySpec: the number)
    mPrev,          \* the record returned by the call before the repeated one
    \* ---- one retried provider operation (specification RetrySpec)
    rImpl,          \* "geocoding", "pricing" or "reviews"
    rPc,            \* "call", "wait", "returned" or "thrown"
    attempt,        \* the loop counter of the two Google loops
    retryCount,     \* the argument of makeBookingAPIRequest
    lastError,      \* the lastError of the two Google loops
    rResponses,     \* the responses of the provider, one per call made
    rOutcome,       \* what the operation returned or threw
    \* ---- the store behind config/redis.js
    cache,          \* the entries of the store: key, serialized value, ttl
    now,            \* the clock, in seconds
    expireAt,       \* per key of the store, the time its entry expires
    \* ---- a client of the store (specification CacheSpec)
    sResult,        \* the last command: its name, key, result
    written,        \* per key, the last write the store took and no delete undid
    \* ---- geocodeLocation calls, one at a time (specification GeoSpec)
    gPc,            \* where the call stands
    location,       \* the argument of the call
    gCached,        \* what getCache returned: null or [value |-> the coordinate]
    result,         \* what callGoogleGeocodingAPI returned
    gOutcome,       \* what geocodeLocation returned or threw
    gCalls,         \* calls of callGoogleGeocodingAPI in this call
    gLookupOk,      \* the store answered the call's getCache
    gHistory,       \* the calls that returned a coordinate, oldest first
    gRequests,      \* number of geocodeLocation calls made
    gTypeof,        \* typeof of the argument of the call
    gAnswer,        \* what the provider call of this call returned or threw
    \* ---- metricsService.js
    apiMetrics,     \* per provider: requests, errors, totalTime, lastError, lastSuccess
    systemMetrics,  \* totalRequests, totalErrors, cacheHits, cacheMisses
    metricsCache,   \* per provider, the window of recent response times
    \* ---- provider calls of the call sites (specification MetricsSpec)
    calls,          \* the calls started, oldest first: site, state, elapsed time
    health,         \* what getAPIHealthStatus returned last, or null
    \* ---- one searchHotels request at a time (specification Spec)
    pc,             \* where the request stands
    query,          \* checkIn, checkOut, guests of the request
    googleHotels,   \* the transformed discovery results
    cached,         \* what getCache returned: null or [value |-> the list]
    i,              \* the batch loop's index
    enrichedHotels, \* the list built by enrichHotelsWithPricing
    response,       \* what searchHotels returned or threw
    \* ---- history of the request, read by the properties only
    requests,       \* number of requests started
    discoveryCalls, \* calls to the discovery provider in this request
    pricingCalls,   \* calls of searchBookingHotels in this request
    batchLog,       \* per batch: its first index and what the pricing call gave
    lookupOk,       \* the store answered the request's getCache
    lastSetCache    \* the setCache call of the request, or null

matchVars == <<mPc, mGoogle, mBooking, mResult, mPrev>>

retryVars == <<rImpl, rPc, attempt, retryCount, lastError, rResponses, rOutcome>>

pipeVars == <<cache, pc, query, googleHotels, cached, i, enrichedHotels, response,
              requests, discoveryCalls, pricingCalls, batchLog, lookupOk,
              lastSetCache>>

\* the variables of a searchHotels request
requestVars == <<pc, query, googleHotels, cached, i, enrichedHotels, response,
                 requests, discoveryCalls, pricingCalls, batchLog, lookupOk,
                 lastSetCache>>

clockVars == <<now, expireAt>>

clientVars == <<sResult, written>>

geoVars == <<gPc, location, gCached, result, gOutcome, gCalls, gLookupOk, gHistory,
             gRequests, gTypeof, gAnswer>>

metricVars == <<apiMetrics, systemMetrics, metricsCache>>

siteVars == <<calls, health>>

\* what the specifications written before metricsService leave alone
restVars == <<metricVars, siteVars>>

\* what a searchHotels request leaves alone
offPipeVars == <<matchVars, retryVars, clockVars, clientVars, geoVars, restVars>>

vars == <<matchVars, retryVars, pipeVars, clockVars, clientVars, geoVars, restVars>>

null == [null |-> TRUE]

Max(a, b) == IF a >= b THEN a ELSE b
Min(a, b) == IF a <= b THEN a ELSE b
Abs(a) == IF a >= 0 THEN a ELSE 0 - a

(***************************************************************************)
(* Strings                                                                 *)
(***************************************************************************)
\* the capital letters that occur in the names of the model
LowerCaseOf ==
    [A |-> "a", B |-> "b", C |-> "c", D |-> "d", E |-> "e", G |-> "g",
     H |-> "h", P |-> "p", T |-> "t", X |-> "x", Y |-> "y"]

toLowerCaseChar(c) == IF c \in DOMAIN LowerCaseOf THEN LowerCaseOf[c] ELSE c

toLowerCase(s) == [k \in DOMAIN s |-> toLowerCaseChar(s[k])]

(***************************************************************************)
(* calculateStringSimilarity: the dp table of the code, filled row by row. *)
(* dp[0][j] = j, dp[i][0] = i, and for i, j >= 1 the diagonal entry on     *)
(* equal characters, else 1 + the minimum of the three neighbours.  A row  *)
(* dp[i][0..n] is the sequence whose element j + 1 is dp[i][j]; the row    *)
(* index i of the code is di here.                                         *)
(***************************************************************************)
RECURSIVE dpRow(_, _, _, _, _)
dpRow(str1, str2, di, prevRow, row) ==
    LET j == Len(row)
    IN  IF j > Len(str2) THEN row
        ELSE dpRow(str1, str2, di, prevRow,
                   Append(row,
                          IF str1[di] = str2[j]
                          THEN prevRow[j]
                          ELSE Min(prevRow[j] + 1,
                                   Min(prevRow[j + 1] + 1, row[j] + 1))))

RECURSIVE dpRows(_, _, _, _)
dpRows(str1, str2, di, prevRow) ==
    IF di > Len(str1) THEN prevRow
    ELSE dpRows(str1, str2, di + 1, dpRow(str1, str2, di, prevRow, <<di>>))

\* dp[m][n]
dp(str1, str2) ==
    dpRows(str1, str2, 1, [k \in 1..(Len(str2) + 1) |-> k - 1])[Len(str2) + 1]

\* 1.0 in the unit of calculateStringSimilarity's result; every length up
\* to 10 divides it, so 1 - d/maxLength is exact.
SimScale == 2520

\* 0/0 is NaN in the code (both strings empty).
NaN == 0 - 1

\* a === b on numbers: NaN is equal to nothing, itself included
StrictEquals(a, b) == a # NaN /\ b # NaN /\ a = b

\* mutant: the distance is divided by the length of the shorter string
calculateStringSimilarity_ByShorter(str1, str2) ==
    LET m == Len(str1)
        n == Len(str2)
        minLength == Min(m, n)
    IN  IF minLength = 0 THEN NaN
        ELSE SimScale - ((dp(str1, str2) * SimScale) \div minLength)

calculateStringSimilarity(str1, str2) ==
    LET m == Len(str1)
        n == Len(str2)
        maxLength == Max(m, n)
    IN  IF maxLength = 0 THEN NaN
        ELSE SimScale - ((dp(str1, str2) * SimScale) \div maxLength)

(***************************************************************************)
(* calculateDistance, in metres, rounded as Math.round does.               *)
(***************************************************************************)
\* R * pi / 180 metres per degree = 111194.93, i.e. 1.11195 m per 1e-5 degree
MetersPer1e5Units == 111195

\* cos(40.759 degrees) * 1e5: the records of the model lie within 0.02
\* degrees of that latitude, where cos(phi1) * cos(phi2) is its square
CosLatitude1e5 == 75746

\* the integer part of the square root of n, lo <= sqrt(n) <= hi
RECURSIVE SqrtBetween(_, _, _)
SqrtBetween(n, lo, hi) ==
    IF lo = hi THEN lo
    ELSE LET mid == (lo + hi + 1) \div 2
         IN  IF mid * mid <= n THEN SqrtBetween(n, mid, hi)
             ELSE SqrtBetween(n, lo, mid - 1)

\* Math.sqrt rounded to the nearest integer, n < 2^26
Mathsqrt(n) ==
    LET r == SqrtBetween(n, 0, 8192)
    IN  IF n - r * r > r THEN r + 1 ELSE r

\* On one meridian the arc is R * |dphi|.  Off it, over these few hundred
\* metres, the haversine is the plane distance of the north and east
\* components, computed in decimetres.
calculateDistance(lat1, lon1, lat2, lon2) ==
    IF lon1 = lon2
    THEN ((MetersPer1e5Units * Abs(lat2 - lat1)) + 50000) \div 100000
    ELSE LET north == ((MetersPer1e5Units * Abs(lat2 - lat1)) + 5000) \div 10000
             onEquator == ((MetersPer1e5Units * Abs(lon2 - lon1)) + 5000) \div 10000
             east == ((onEquator * CosLatitude1e5) + 50000) \div 100000
         IN  (Mathsqrt(north * north + east * east) + 5) \div 10

(***************************************************************************)
(* calculateMatchScore                                                     *)
(***************************************************************************)
ScoreScale == SimScale * 1000

\* mutant: the distance counts up to 1000 m
calculateMatchScore_Limit1000(googleHotel, bookingHotel) ==
    LET sim == calculateStringSimilarity(toLowerCase(googleHotel.name),
                                         toLowerCase(bookingHotel.name))
        \* similarity * 0.5
        nameSimilarity == sim * 500
        distance == calculateDistance(googleHotel.latitude, googleHotel.longitude,
                                      bookingHotel.latitude, bookingHotel.longitude)
        \* Math.max(0, 1 - distance / 1000) * 0.3
        distanceScore == Max(0, 1000 - distance) * 756
        \* (1 - |ra - rb| / 5) * 0.2 when both ratings are truthy, else 0
        ratingSimilarity ==
            IF googleHotel.rating # 0 /\ bookingHotel.rating # 0
            THEN (50 - Abs(googleHotel.rating - bookingHotel.rating)) * 10080
            ELSE 0
    IN  IF sim = NaN THEN NaN
        ELSE nameSimilarity + distanceScore + ratingSimilarity

calculateMatchScore(googleHotel, bookingHotel) ==
    LET sim == calculateStringSimilarity(toLowerCase(googleHotel.name),
                                         toLowerCase(bookingHotel.name))
        \* similarity * 0.5
        nameSimilarity == sim * 500
        distance == calculateDistance(googleHotel.latitude, googleHotel.longitude,
                                      bookingHotel.latitude, bookingHotel.longitude)
        \* Math.max(0, 1 - distance / 500) * 0.3
        distanceScore == Max(0, 500 - distance) * 1512
        \* (1 - |ra - rb| / 5) * 0.2 when both ratings are truthy, else 0
        ratingSimilarity ==
            IF googleHotel.rating # 0 /\ bookingHotel.rating # 0
            THEN (50 - Abs(googleHotel.rating - bookingHotel.rating)) * 10080
            ELSE 0
    IN  IF sim = NaN THEN NaN
        ELSE nameSimilarity + distanceScore + ratingSimilarity

\* 0.7 in the unit of the score
MatchThreshold == 7 * (ScoreScale \div 10)

(***************************************************************************)
(* The two comparators handed to Array.prototype.sort.                     *)
(***************************************************************************)
\* matches.sort((a, b) => b.score - a.score)
ScoreCompare(a, b) == b.score - a.score

\* a.price?.amount is truthy: there is a price and its amount is not 0
AmountTruthy(h) == h.price # null /\ h.price.amount # 0

\* mutant: the availability of the two hotels is not compared
CompareHotels_IgnoreAvailable(a, b) ==
    IF AmountTruthy(a) /\ AmountTruthy(b) THEN a.price.amount - b.price.amount
    ELSE IF AmountTruthy(a) THEN 0 - 1
    ELSE IF AmountTruthy(b) THEN 1
    ELSE b.rating - a.rating

\* the comparator of searchHotels
CompareHotels(a, b) ==
    IF a.available # b.available THEN (IF a.available THEN 0 - 1 ELSE 1)
    ELSE IF AmountTruthy(a) /\ AmountTruthy(b) THEN a.price.amount - b.price.amount
    ELSE IF AmountTruthy(a) THEN 0 - 1
    ELSE IF AmountTruthy(b) THEN 1
    ELSE b.rating - a.rating

Comparator(cmp, a, b) ==
    IF cmp = "score" THEN ScoreCompare(a, b) ELSE CompareHotels(a, b)

(***************************************************************************)
(* Array.prototype.sort with a comparator that is a total preorder: the    *)
(* stable sorted permutation, built by insertion.  A negative comparator   *)
(* value puts a before b.  cmp names the comparator.                       *)
(***************************************************************************)
\* mutant: an element is put before the elements it compares equal to
RECURSIVE InsertSorted_BeforeEqual(_, _, _)
InsertSorted_BeforeEqual(cmp, x, s) ==
    IF s = <<>> THEN <<x>>
    ELSE IF Comparator(cmp, x, s[1]) <= 0 THEN <<x>> \o s
    ELSE <<s[1]>> \o InsertSorted_BeforeEqual(cmp, x, Tail(s))

RECURSIVE InsertSorted(_, _, _)
InsertSorted(cmp, x, s) ==
    IF s = <<>> THEN <<x>>
    ELSE IF Comparator(cmp, x, s[1]) < 0 THEN <<x>> \o s
    ELSE <<s[1]>> \o InsertSorted(cmp, x, Tail(s))

RECURSIVE StableSort(_, _)
StableSort(cmp, s) ==
    IF s = <<>> THEN <<>>
    ELSE LET n == Len(s)
         IN  InsertSorted(cmp, s[n], StableSort(cmp, SubSeq(s, 1, n - 1)))

(***************************************************************************)
(* findBestBookingMatch                                                    *)
(***************************************************************************)
\* mutant: the names are compared without lowercasing
FindExactMatch_CaseSensitive(googleHotel, bookingHotels) ==
    LET hits == {k \in DOMAIN bookingHotels : bookingHotels[k].name = googleHotel.name}
    IN  IF hits = {} THEN null
        ELSE bookingHotels[CHOOSE k \in hits : \A l \in hits : k <= l]

\* bookingHotels.find(bh => bh.name.toLowerCase() === googleHotel.name.toLowerCase())
FindExactMatch(googleHotel, bookingHotels) ==
    LET hits == {k \in DOMAIN bookingHotels :
                    toLowerCase(bookingHotels[k].name) = toLowerCase(googleHotel.name)}
    IN  IF hits = {} THEN null
        ELSE bookingHotels[CHOOSE k \in hits : \A l \in hits : k <= l]

ScoredMatches(googleHotel, bookingHotels) ==
    [k \in DOMAIN bookingHotels |->
        [hotel |-> bookingHotels[k],
         score |-> calculateMatchScore(googleHotel, bookingHotels[k])]]

\* mutant: the threshold test is >= instead of >
findBestBookingMatch_AtLeastThreshold(googleHotel, bookingHotels) ==
    IF Len(bookingHotels) = 0 THEN null
    ELSE LET exactMatch == FindExactMatch(googleHotel, bookingHotels)
         IN  IF exactMatch # null THEN exactMatch
             ELSE LET matches == StableSort("score",
                                            ScoredMatches(googleHotel, bookingHotels))
                  IN  IF matches[1].score >= MatchThreshold
                      THEN matches[1].hotel
                      ELSE null

findBestBookingMatch(googleHotel, bookingHotels) ==
    IF Len(bookingHotels) = 0 THEN null
    ELSE LET exactMatch == FindExactMatch(googleHotel, bookingHotels)
         IN  IF exactMatch # null THEN exactMatch
             ELSE LET matches == StableSort("score",
                                            ScoredMatches(googleHotel, bookingHotels))
                  IN  IF matches[1].score > MatchThreshold
                      THEN matches[1].hotel
                      ELSE null

(***************************************************************************)
(* Records of the two providers.  A discovery record keeps the fields of   *)
(* the googleHotels mapping that the pipeline reads (photos, types and     *)
(* googleData are carried along untouched and are left out); a pricing     *)
(* record keeps the fields of the searchHotelsWithPricing mapping.         *)
(***************************************************************************)
BaseLatitude == 40 * 100000 + 75890
BaseLongitude == 0 - (73 * 100000 + 98510)

NameAbcde == <<"A", "b", "c", "d", "e">>
NameABCDE == <<"A", "B", "C", "D", "E">>
NameAbcdf == <<"a", "b", "c", "d", "f">>
NameAbcxy == <<"a", "b", "c", "x", "y">>
NameXy == <<"x", "y">>
NameGrandPlaza == <<"G", "r", "a", "n", "d", " ", "P", "l", "a", "z", "a">>
NameTheGrandPlazaHotel ==
    <<"T", "h", "e", " ", "G", "r", "a", "n", "d", " ", "P", "l", "a", "z", "a",
      " ", "H", "o", "t", "e", "l">>

GoogleHotel(id, name, address, rating, latitude) ==
    [id |-> id, name |-> name, address |-> address, rating |-> rating,
     latitude |-> latitude, longitude |-> BaseLongitude]

BookingHotel(id, name, rating, latitude, amount) ==
    [id |-> id, name |-> name, rating |-> rating,
     latitude |-> latitude, longitude |-> BaseLongitude,
     price |-> [amount |-> amount, currency |-> "USD", period |-> "per night"],
     facilities |-> <<>>, policies |-> <<>>, rooms |-> <<>>,
     bookingUrl |-> <<"url", id>>]

(***************************************************************************)
(* config/redis.js: the store holds, per key, the serialized value and the *)
(* ttl given to setEx.  storeOk says that the client is open and that the  *)
(* command succeeds; otherwise getCache gives null and setCache does       *)
(* nothing.                                                                *)
(***************************************************************************)
\* JSON.stringify / JSON.parse: the values stored here hold no undefined,
\* NaN, function or Date, so parsing gives back an equal value
JSONstringify(value) == [json |-> value]
JSONparse(text) == text.json

\* parseInt(process.env.CACHE_TTL) || 3600 with CACHE_TTL unset
DefaultCacheTTL == 3600

setCache(store, key, value, ttl, storeOk) ==
    IF storeOk
    THEN {e \in store : e.key # key}
            \cup {[key |-> key,
                   value |-> JSONstringify(value),
                   ttl |-> IF ttl # 0 THEN ttl ELSE DefaultCacheTTL]}
    ELSE store

\* mutant: the truthiness test is applied to the parsed value
getCache_FalsyMiss(store, key, storeOk) ==
    IF storeOk /\ \E e \in store : e.key = key
                                /\ JSONparse(e.value) # 0
    THEN [value |-> JSONparse((CHOOSE e \in store : e.key = key).value)]
    ELSE null

\* the result is null or [value |-> v]: a list cannot be compared with null.
\* The serialized text of a value is never the empty string, so it is truthy.
getCache(store, key, storeOk) ==
    IF storeOk /\ \E e \in store : e.key = key
    THEN [value |-> JSONparse((CHOOSE e \in store : e.key = key).value)]
    ELSE null

deleteCache(store, key, storeOk) ==
    IF storeOk THEN {e \in store : e.key # key} ELSE store

\* what setCache and deleteCache return to their caller
CommandResult(storeOk) == storeOk

\* setEx(key, cacheTTL, ...): the entry of key expires cacheTTL seconds from t
SetExpiry(expiries, key, ttl, t, storeOk) ==
    IF storeOk
    THEN {x \in expiries : x.key # key}
            \cup {[key |-> key, at |-> t + (IF ttl # 0 THEN ttl ELSE DefaultCacheTTL)]}
    ELSE expiries

\* del(key) removes the expiry with the entry
DropExpiry(expiries, key, storeOk) ==
    IF storeOk THEN {x \in expiries : x.key # key} ELSE expiries

\* the keys whose time to live has run out at time t
ExpiredKeys(expiries, t) == {x.key : x \in {y \in expiries : t > y.at}}

\* the store at time t: the entries of the expired keys are gone
ExpireEntries(store, expiries, t) ==
    {e \in store : e.key \notin ExpiredKeys(expiries, t)}

ExpireExpiries(expiries, t) == {x \in expiries : t <= x.at}

(***************************************************************************)
(* services/metricsService.js.  JavaScript runs a function to its next     *)
(* await without interleaving, so trackAPICall is two steps: up to the     *)
(* await of apiCall(), and from its completion to the return or throw.     *)
(***************************************************************************)
\* entries of the window of recent response times.  The source keeps 100; the
\* model keeps fewer so that a window fills up within a few calls.
WindowLimit == 2

NewProviderMetrics ==
    [requests |-> 0, errors |-> 0, totalTime |-> 0, lastError |-> null,
     lastSuccess |-> null]

\* the metrics when the module is loaded
MetricsIdle ==
    /\ apiMetrics = [p \in {"tbo", "webbeds", "google_geocoding",
                             "google_reverse_geocoding", "booking"}
                        |-> NewProviderMetrics]
    /\ systemMetrics = [totalRequests |-> 0, totalErrors |-> 0,
                        cacheHits |-> 0, cacheMisses |-> 0]
    /\ metricsCache = << >>

\* trackAPICall up to the await: the entry is made when missing, requests++
trackStart(metrics, provider) ==
    [p \in DOMAIN metrics \cup {provider} |->
        IF p # provider THEN metrics[p]
        ELSE IF p \in DOMAIN metrics
             THEN [metrics[p] EXCEPT !.requests = @ + 1]
             ELSE [NewProviderMetrics EXCEPT !.requests = 1]]

\* trackAPICall after apiCall() returned
trackSuccess(metrics, provider, elapsed, t) ==
    [metrics EXCEPT ![provider].totalTime = @ + elapsed,
                    ![provider].lastSuccess = [timestamp |-> t]]

\* mutant: the newest entry is dropped from a full window
pushRecentTime_Pop(windows, provider, elapsed) ==
    LET recentTimes == IF provider \in DOMAIN windows THEN windows[provider] ELSE <<>>
        pushed == Append(recentTimes, elapsed)
        kept == IF Len(pushed) > WindowLimit
                THEN SubSeq(pushed, 1, Len(pushed) - 1) ELSE pushed
    IN  [p \in DOMAIN windows \cup {provider} |->
            IF p = provider THEN kept ELSE windows[p]]

\* recentTimes.push(...); if (recentTimes.length > 100) recentTimes.shift()
pushRecentTime(windows, provider, elapsed) ==
    LET recentTimes == IF provider \in DOMAIN windows THEN windows[provider] ELSE <<>>
        pushed == Append(recentTimes, elapsed)
        kept == IF Len(pushed) > WindowLimit THEN Tail(pushed) ELSE pushed
    IN  [p \in DOMAIN windows \cup {provider} |->
            IF p = provider THEN kept ELSE windows[p]]

\* trackAPICall's catch
trackError(metrics, provider, elapsed, t, message) ==
    [metrics EXCEPT ![provider].errors = @ + 1,
                    ![provider].totalTime = @ + elapsed,
                    ![provider].lastError = [timestamp |-> t, message |-> message]]

\* Math.round(a / b) for a >= 0, b > 0
RoundDiv(a, b) == (2 * a + b) \div (2 * b)

RECURSIVE Sum(_)
Sum(seq) == IF seq = <<>> THEN 0 ELSE Head(seq) + Sum(Tail(seq))

\* metrics.errorRate > limit: the entries of apiMetrics hold no errorRate, and
\* undefined > limit is false
PropertyExceeds(metrics, property, limit) ==
    property \in DOMAIN metrics /\ metrics[property] > limit

\* getAPIHealthStatus; recentAverage > 10000 is compared on the sum
getAPIHealthStatus ==
    [p \in DOMAIN apiMetrics |->
        LET metrics == apiMetrics[p]
            recentTimes == IF p \in DOMAIN metricsCache THEN metricsCache[p] ELSE <<>>
            slow == Len(recentTimes) > 0 /\ Sum(recentTimes) > 10000 * Len(recentTimes)
        IN  [status |->
                 IF metrics.requests = 0 THEN "unknown"
                 ELSE IF PropertyExceeds(metrics, "errorRate", 50) THEN "critical"
                 ELSE IF PropertyExceeds(metrics, "errorRate", 20) \/ slow
                      THEN "degraded"
                 ELSE "healthy",
             errorRate |->
                 IF metrics.requests > 0
                 THEN RoundDiv(metrics.errors * 100, metrics.requests) ELSE 0,
             averageResponseTime |->
                 IF Len(recentTimes) > 0
                 THEN RoundDiv(Sum(recentTimes), Len(recentTimes)) ELSE 0]]

(***************************************************************************)
(* enrichHotelsWithPricing                                                 *)
(***************************************************************************)
\* hotels per pricing call.  The source sets 10; the model runs the same loop
\* with a smaller batch so that requests of several batches stay small.
BATCH_SIZE == 2

\* the ttl of the hotel-pricing entry, in seconds
PricingCacheTTL == 1800

\* hotels.map(h => h.id)
HotelIds(hotels) == [k \in DOMAIN hotels |-> hotels[k].id]

\* mutant: the ids enter the key in one fixed order, whatever order they came in
cacheKey_SortedIds(hotels, q) ==
    LET ids == {hotels[k].id : k \in DOMAIN hotels}
        sorted == CHOOSE t \in [1..Cardinality(ids) -> ids] :
                      \A k, l \in DOMAIN t : k # l => t[k] # t[l]
    IN  <<"hotel-pricing", q.checkIn, q.checkOut, q.guests, sorted>>

\* mutant: the key holds the dates and the guests only
cacheKey_NoIds(hotels, q) ==
    <<"hotel-pricing", q.checkIn, q.checkOut, q.guests, <<>>>>

\* `hotel-pricing:${checkIn}:${checkOut}:${guests}:${ids.join(',')}`
cacheKey(hotels, q) ==
    <<"hotel-pricing", q.checkIn, q.checkOut, q.guests, HotelIds(hotels)>>

\* hotels.slice(from, to), indices counted from 0
slice(hotels, from, to) == SubSeq(hotels, from + 1, Min(to, Len(hotels)))

Unavailable(googleHotel) ==
    [id |-> googleHotel.id, name |-> googleHotel.name,
     address |-> googleHotel.address, rating |-> googleHotel.rating,
     latitude |-> googleHotel.latitude, longitude |-> googleHotel.longitude,
     available |-> FALSE, price |-> null]

Available(googleHotel, bookingMatch) ==
    [id |-> googleHotel.id, name |-> googleHotel.name,
     address |-> googleHotel.address, rating |-> googleHotel.rating,
     latitude |-> googleHotel.latitude, longitude |-> googleHotel.longitude,
     price |-> bookingMatch.price, rooms |-> bookingMatch.rooms,
     available |-> TRUE, bookingId |-> bookingMatch.id,
     bookingUrl |-> bookingMatch.bookingUrl,
     facilities |-> bookingMatch.facilities, policies |-> bookingMatch.policies]

\* mutant: a hotel without a match is emitted as available
EnrichHotel_AlwaysAvailable(googleHotel, bookingResults) ==
    LET bookingMatch == findBestBookingMatch(googleHotel, bookingResults)
    IN  IF bookingMatch # null
        THEN Available(googleHotel, bookingMatch)
        ELSE [Unavailable(googleHotel) EXCEPT !.available = TRUE]

\* the body of the loop over the hotels of a batch
EnrichHotel(googleHotel, bookingResults) ==
    LET bookingMatch == findBestBookingMatch(googleHotel, bookingResults)
    IN  IF bookingMatch # null
        THEN Available(googleHotel, bookingMatch)
        ELSE Unavailable(googleHotel)

EnrichBatch(batch, bookingResults) ==
    [k \in DOMAIN batch |-> EnrichHotel(batch[k], bookingResults)]

FailedHotel(hotel) ==
    [id |-> hotel.id, name |-> hotel.name,
     address |-> hotel.address, rating |-> hotel.rating,
     latitude |-> hotel.latitude, longitude |-> hotel.longitude,
     available |-> FALSE, price |-> null, error |-> "Failed to fetch pricing"]

\* mutant: the hotels of a failed batch are dropped
FailedBatch_Dropped(batch) == <<>>

\* the catch branch: batch.map(hotel => ({...hotel, available: false, ...}))
FailedBatch(batch) == [k \in DOMAIN batch |-> FailedHotel(batch[k])]

(***************************************************************************)
(* searchHotels: the returned object                                       *)
(***************************************************************************)
\* h.price?.amount > 0
WithPricing(h) == h.price # null /\ h.price.amount > 0

SearchResult(sortedHotels) ==
    [hotels |-> sortedHotels,
     metadata |->
        [total |-> Len(sortedHotels),
         available |-> Cardinality({k \in DOMAIN sortedHotels : sortedHotels[k].available}),
         unavailable |-> Cardinality({k \in DOMAIN sortedHotels : ~sortedHotels[k].available}),
         withPricing |-> Cardinality({k \in DOMAIN sortedHotels : WithPricing(sortedHotels[k])})]]

(***************************************************************************)
(* Inputs of the requests of specification Spec.                           *)
(***************************************************************************)
\* requests started in one run
MaxRequests == 2
\* longest discovery result
MaxHotels == 3

Queries == {[checkIn |-> "2026-01-10", checkOut |-> "2026-01-12", guests |-> 2]}

\* g1 and g2 have the same name and address up to letter case
GoogleUniverse ==
    {GoogleHotel("g1", NameAbcde, <<"x">>, 45, BaseLatitude),
     GoogleHotel("g2", NameABCDE, <<"X">>, 40, BaseLatitude),
     GoogleHotel("g3", NameXy, <<"y">>, 0, BaseLatitude + 45)}

\* the discovery results: up to MaxHotels records of distinct ids, in any order
DiscoveryLists ==
    UNION {{s \in [1..n -> GoogleUniverse] :
                \A k, l \in 1..n : k # l => s[k].id # s[l].id} :
           n \in 1..MaxHotels}

Booking1 == BookingHotel(<<"booking", 1>>, NameABCDE, 44, BaseLatitude, 100)
Booking2 == BookingHotel(<<"booking", 2>>, NameXy, 0, BaseLatitude + 45, 0)
Booking3 == BookingHotel(<<"booking", 3>>, NameAbcdf, 45, BaseLatitude, 80)

\* what searchBookingHotels returns for a batch.  The first list holds the
\* exact names of g1, g2 (amount 100) and g3 (amount 0); the second holds a
\* record that g1 and g2 reach by score only (amount 80) and nothing for g3.
PricingResponses ==
    {<<Booking1, Booking2>>, <<Booking3>>}

(***************************************************************************)
(* Specification Spec: searchHotels requests, one after the other, over    *)
(* one store.                                                              *)
(***************************************************************************)
\* the clock stands at 0 and no client of the store has acted
StoreIdle ==
    /\ now = 0
    /\ expireAt = {}
    /\ sResult = null
    /\ written = {}

\* no geocodeLocation call has been made
GeoIdle ==
    /\ gPc = "idle"
    /\ location = null
    /\ gCached = null
    /\ result = null
    /\ gOutcome = null
    /\ gCalls = 0
    /\ gLookupOk = FALSE
    /\ gHistory = <<>>
    /\ gRequests = 0
    /\ gTypeof = "undefined"
    /\ gAnswer = null

\* the metrics are as loaded and no call site has called a provider
RestIdle ==
    /\ MetricsIdle
    /\ calls = <<>>
    /\ health = null

\* no retried operation is running
RetryIdle ==
    /\ rImpl = "none"
    /\ rPc = "idle"
    /\ attempt = 0
    /\ retryCount = 0
    /\ lastError = null
    /\ rResponses = <<>>
    /\ rOutcome = null

\* no findBestBookingMatch call is running
MatchIdle ==
    /\ mPc = "idle"
    /\ mGoogle = null
    /\ mBooking = <<>>
    /\ mResult = null
    /\ mPrev = null

Init ==
    /\ cache = {}
    /\ pc = "idle"
    /\ query = null
    /\ googleHotels = <<>>
    /\ cached = null
    /\ i = 0
    /\ enrichedHotels = <<>>
    /\ response = null
    /\ requests = 0
    /\ discoveryCalls = 0
    /\ pricingCalls = 0
    /\ batchLog = <<>>
    /\ lookupOk = FALSE
    /\ lastSetCache = null
    /\ MatchIdle
    /\ RetryIdle
    /\ StoreIdle
    /\ GeoIdle
    /\ RestIdle

\* a caller invokes searchHotels with a validated query
Request(q) ==
    /\ pc \in {"idle", "returned", "thrown"}
    /\ requests < MaxRequests
    /\ requests' = requests + 1
    /\ query' = q
    /\ pc' = "discover"
    /\ googleHotels' = <<>>
    /\ cached' = null
    /\ i' = 0
    /\ enrichedHotels' = <<>>
    /\ response' = null
    /\ discoveryCalls' = 0
    /\ pricingCalls' = 0
    /\ batchLog' = <<>>
    /\ lookupOk' = FALSE
    /\ lastSetCache' = null
    /\ UNCHANGED <<cache, offPipeVars>>

\* the discovery provider answers OK with results
DiscoverOk(hotels) ==
    /\ pc = "discover"
    /\ discoveryCalls' = discoveryCalls + 1
    /\ googleHotels' = hotels
    /\ pc' = "getCache"
    /\ UNCHANGED <<cache, query, cached, i, enrichedHotels, response, requests,
                   pricingCalls, batchLog, lookupOk, lastSetCache, offPipeVars>>

\* the discovery provider answers with an HTTP error or a status other than OK
DiscoverFail ==
    /\ pc = "discover"
    /\ discoveryCalls' = discoveryCalls + 1
    /\ response' = [error |-> "APIError", provider |-> "google"]
    /\ pc' = "thrown"
    /\ UNCHANGED <<cache, query, googleHotels, cached, i, enrichedHotels, requests,
                   pricingCalls, batchLog, lookupOk, lastSetCache, offPipeVars>>

\* mutant: the cached list is read but the batches run all the same
EnrichLookup_IgnoreHit ==
    /\ pc = "getCache"
    /\ \E storeOk \in BOOLEAN :
        /\ cached' = getCache(cache, cacheKey(googleHotels, query), storeOk)
        /\ lookupOk' = storeOk
    /\ pc' = "batch"
    /\ i' = 0
    /\ enrichedHotels' = <<>>
    /\ UNCHANGED <<cache, query, googleHotels, response, requests, discoveryCalls,
                   pricingCalls, batchLog, lastSetCache, offPipeVars>>

\* mutant: a store that does not answer makes the request throw
EnrichLookup_ThrowsWhenDown ==
    /\ pc = "getCache"
    /\ \E storeOk \in BOOLEAN :
        /\ cached' = getCache(cache, cacheKey(googleHotels, query), storeOk)
        /\ lookupOk' = storeOk
        /\ IF ~storeOk
           THEN /\ enrichedHotels' = <<>>
                /\ pc' = "thrown"
                /\ response' = [error |-> "CacheError", provider |-> "redis"]
           ELSE /\ response' = response
                /\ IF cached' # null
                   THEN /\ enrichedHotels' = cached'.value
                        /\ pc' = "sort"
                   ELSE /\ enrichedHotels' = <<>>
                        /\ pc' = IF 0 < Len(googleHotels) THEN "batch" ELSE "setCache"
    /\ i' = 0
    /\ UNCHANGED <<cache, query, googleHotels, requests, discoveryCalls,
                   pricingCalls, batchLog, lastSetCache, offPipeVars>>

\* enrichHotelsWithPricing up to the loop: the key, getCache, return on a hit
EnrichLookup ==
    /\ pc = "getCache"
    /\ \E storeOk \in BOOLEAN :
        /\ cached' = getCache(cache, cacheKey(googleHotels, query), storeOk)
        /\ lookupOk' = storeOk
    /\ IF cached' # null
       THEN /\ enrichedHotels' = cached'.value
            /\ pc' = "sort"
       ELSE /\ enrichedHotels' = <<>>
            /\ pc' = IF 0 < Len(googleHotels) THEN "batch" ELSE "setCache"
    /\ i' = 0
    /\ UNCHANGED <<cache, query, googleHotels, response, requests, discoveryCalls,
                   pricingCalls, batchLog, lastSetCache, offPipeVars>>

\* mutant: the delay is awaited after every batch, the last one included
AfterBatch_DelayAfterLast ==
    pc' = "delay" /\ i' = i

\* the end of one loop iteration: the delay when another batch follows
AfterBatch ==
    IF i + BATCH_SIZE < Len(googleHotels)
    THEN pc' = "delay" /\ i' = i
    ELSE pc' = "setCache" /\ i' = i + BATCH_SIZE

\* one batch whose pricing call returns bookingResults
BatchSuccess(bookingResults) ==
    /\ pc = "batch"
    /\ i < Len(googleHotels)
    /\ LET batch == slice(googleHotels, i, i + BATCH_SIZE)
       IN  enrichedHotels' = enrichedHotels \o EnrichBatch(batch, bookingResults)
    /\ pricingCalls' = pricingCalls + 1
    /\ batchLog' = Append(batchLog, [start |-> i, failed |-> FALSE,
                                     results |-> bookingResults])
    /\ AfterBatch
    /\ UNCHANGED <<cache, query, googleHotels, cached, response, requests,
                   discoveryCalls, lookupOk, lastSetCache, offPipeVars>>

\* mutant: the error of the pricing call is thrown to the caller of searchHotels
BatchFailure_Throws ==
    /\ pc = "batch"
    /\ i < Len(googleHotels)
    /\ pricingCalls' = pricingCalls + 1
    /\ batchLog' = Append(batchLog, [start |-> i, failed |-> TRUE, results |-> <<>>])
    /\ response' = [error |-> "BookingAPIError", provider |-> "booking"]
    /\ pc' = "thrown"
    /\ UNCHANGED <<cache, query, googleHotels, cached, i, enrichedHotels, requests,
                   discoveryCalls, lookupOk, lastSetCache, offPipeVars>>

\* one batch whose pricing call throws
BatchFailure ==
    /\ pc = "batch"
    /\ i < Len(googleHotels)
    /\ LET batch == slice(googleHotels, i, i + BATCH_SIZE)
       IN  enrichedHotels' = enrichedHotels \o FailedBatch(batch)
    /\ pricingCalls' = pricingCalls + 1
    /\ batchLog' = Append(batchLog, [start |-> i, failed |-> TRUE, results |-> <<>>])
    /\ AfterBatch
    /\ UNCHANGED <<cache, query, googleHotels, cached, response, requests,
                   discoveryCalls, lookupOk, lastSetCache, offPipeVars>>

\* the 1000 ms timer between two batches fires
Delay ==
    /\ pc = "delay"
    /\ i' = i + BATCH_SIZE
    /\ pc' = "batch"
    /\ UNCHANGED <<cache, query, googleHotels, cached, enrichedHotels, response,
                   requests, discoveryCalls, pricingCalls, batchLog, lookupOk,
                   lastSetCache, offPipeVars>>

\* mutant: a list with a failed batch is not written
EnrichStore_SkipPartial ==
    /\ pc = "setCache"
    /\ \E storeOk \in BOOLEAN :
        LET write == storeOk /\ \A k \in DOMAIN batchLog : ~batchLog[k].failed
        IN  /\ cache' = setCache(cache, cacheKey(googleHotels, query),
                                 enrichedHotels, PricingCacheTTL, write)
            /\ lastSetCache' = [key |-> cacheKey(googleHotels, query),
                                value |-> enrichedHotels,
                                ttl |-> PricingCacheTTL,
                                stored |-> storeOk]
    /\ pc' = "sort"
    /\ UNCHANGED <<query, googleHotels, cached, i, enrichedHotels, response, requests,
                   discoveryCalls, pricingCalls, batchLog, lookupOk, offPipeVars>>

\* await setCache(cacheKey, enrichedHotels, 1800); return enrichedHotels
EnrichStore ==
    /\ pc = "setCache"
    /\ \E storeOk \in BOOLEAN :
        /\ cache' = setCache(cache, cacheKey(googleHotels, query),
                             enrichedHotels, PricingCacheTTL, storeOk)
        /\ lastSetCache' = [key |-> cacheKey(googleHotels, query),
                            value |-> enrichedHotels,
                            ttl |-> PricingCacheTTL,
                            stored |-> storeOk]
    /\ pc' = "sort"
    /\ UNCHANGED <<query, googleHotels, cached, i, enrichedHotels, response, requests,
                   discoveryCalls, pricingCalls, batchLog, lookupOk, offPipeVars>>

\* searchHotels sorts the list in place and returns it with the metadata
SortAndReturn ==
    /\ pc = "sort"
    /\ enrichedHotels' = StableSort("hotels", enrichedHotels)
    /\ response' = SearchResult(enrichedHotels')
    /\ pc' = "returned"
    /\ UNCHANGED <<cache, query, googleHotels, cached, i, requests, discoveryCalls,
                   pricingCalls, batchLog, lookupOk, lastSetCache, offPipeVars>>

Next ==
    \/ \E q \in Queries : Request(q)
    \/ \E hotels \in DiscoveryLists : DiscoverOk(hotels)
    \/ DiscoverFail
    \/ EnrichLookup
    \/ \E bookingResults \in PricingResponses : BatchSuccess(bookingResults)
    \/ BatchFailure
    \/ Delay
    \/ EnrichStore
    \/ SortAndReturn

Spec == Init /\ [][Next]_vars

(***************************************************************************)
(* Specification MatchSpec: one call of findBestBookingMatch on every      *)
(* discovery record and every list of pricing records of the sets below.   *)
(***************************************************************************)
\* longest bookingHotels list tried
MaxCandidates == 2

MatchGoogleNames == {NameAbcde}
\* the same name in another letter case, one and two characters changed
MatchBookingNames == {NameABCDE, NameAbcdf, NameAbcxy}
\* missing (0), 4.0 and 4.5
MatchRatings == {0, 40, 45}
\* 0 m, 50 m and 500 m north of the discovery record
MatchLatitudes == {BaseLatitude, BaseLatitude + 45, BaseLatitude + 450}

\* the discovery record "Grand Plaza" at (40.7589, -73.9851), rating 4.5
GrandPlaza == GoogleHotel("g1", NameGrandPlaza, <<"x">>, 45, BaseLatitude)

\* the pricing record "The Grand Plaza Hotel" at (40.7590, -73.9850), rating 4.6
TheGrandPlazaHotel ==
    [BookingHotel(<<"booking", 1>>, NameTheGrandPlazaHotel, 46, BaseLatitude + 10, 100)
        EXCEPT !.longitude = BaseLongitude + 10]

\* a pricing record of another name 2000 m to the north
FarHotel == BookingHotel(<<"booking", 2>>, NameXy, 46, BaseLatitude + 1800, 200)

GrandPlazaLists ==
    UNION {[1..len -> {TheGrandPlazaHotel, FarHotel}] : len \in 1..MaxCandidates}

MatchGoogleHotels ==
    {GoogleHotel("g1", n, <<"x">>, r, BaseLatitude) :
        n \in MatchGoogleNames, r \in {0, 45}}

\* the pricing record at position k of a list: its id and price are the position's
MatchBookingLists ==
    UNION {
        {[k \in 1..len |-> BookingHotel(<<"booking", k>>, f[k][1], f[k][2], f[k][3], 100 * k)] :
            f \in [1..len -> MatchBookingNames \X MatchRatings \X MatchLatitudes]} :
        len \in 0..MaxCandidates}

\* no request is running and the store is empty
PipeIdle ==
    /\ cache = {}
    /\ pc = "idle"
    /\ query = null
    /\ googleHotels = <<>>
    /\ cached = null
    /\ i = 0
    /\ enrichedHotels = <<>>
    /\ response = null
    /\ requests = 0
    /\ discoveryCalls = 0
    /\ pricingCalls = 0
    /\ batchLog = <<>>
    /\ lookupOk = FALSE
    /\ lastSetCache = null

MatchInit ==
    /\ PipeIdle
    /\ RetryIdle
    /\ StoreIdle
    /\ GeoIdle
    /\ RestIdle
    /\ mPc = "call"
    /\ \/ mGoogle \in MatchGoogleHotels /\ mBooking \in MatchBookingLists
       \/ mGoogle = GrandPlaza /\ mBooking \in GrandPlazaLists
    /\ mResult = null
    /\ mPrev = null

MatchCall ==
    /\ mPc = "call"
    /\ mResult' = findBestBookingMatch(mGoogle, mBooking)
    /\ mPc' = "return"
    /\ UNCHANGED <<mGoogle, mBooking, mPrev>>
    /\ UNCHANGED <<pipeVars, retryVars, clockVars, clientVars, geoVars, restVars>>

\* the caller calls again with the same two arguments
MatchRepeat ==
    /\ mPc = "return"
    /\ mPrev' = mResult
    /\ mResult' = findBestBookingMatch(mGoogle, mBooking)
    /\ mPc' = "repeat"
    /\ UNCHANGED <<mGoogle, mBooking>>
    /\ UNCHANGED <<pipeVars, retryVars, clockVars, clientVars, geoVars, restVars>>

MatchNext == MatchCall \/ MatchRepeat

MatchSpec == MatchInit /\ [][MatchNext]_vars

(***************************************************************************)
(* Specification RetrySpec: one retried provider operation, in each of the *)
(* three implementations: callGoogleGeocodingAPI ("geocoding"),            *)
(* makeBookingAPIRequest ("pricing") and fetchFromGooglePlaces             *)
(* ("reviews").  The provider answers every call with a response chosen    *)
(* from the sets below.  An error carries in `at` the number of the call   *)
(* whose response raised it (0: raised after the loop).  The payload of a  *)
(* successful response is the number of the call it answers.               *)
(***************************************************************************)
\* const maxRetries = 3 of the two Google loops
maxRetries == 3
\* const MAX_RETRIES = 3 of makeBookingAPIRequest
MAX_RETRIES == 3

\* fetch rejects: no HTTP response
NetworkFailure == [kind |-> "network", http |-> 0, status |-> ""]

\* an HTTP response with its status code and, for 200, the status of the body
HttpResponse(http, status) == [kind |-> "http", http |-> http, status |-> status]

\* response.ok
ResponseOk(resp) == resp.kind = "http" /\ resp.http >= 200 /\ resp.http <= 299

HttpErrorResponses ==
    {HttpResponse(h, "") : h \in {429, 400, 403, 404, 500}}

GoogleResponses ==
    {NetworkFailure} \cup HttpErrorResponses \cup
    {HttpResponse(200, st) :
        st \in {"OK", "ZERO_RESULTS", "OVER_QUERY_LIMIT", "REQUEST_DENIED",
                "INVALID_REQUEST", "UNKNOWN_ERROR"}}

BookingResponses ==
    {NetworkFailure, HttpResponse(200, "")} \cup HttpErrorResponses

\* the error fetch rejects with
FetchError(at) ==
    [name |-> "FetchError", message |-> "fetch failed", status |-> 0, at |-> at]

GeocodingError(message, status, at) ==
    [name |-> "GeocodingError", message |-> message, status |-> status, at |-> at]

ReviewError(message, status, at) ==
    [name |-> "ReviewError", message |-> message, status |-> status, at |-> at]

BookingAPIError(message, status, at) ==
    [name |-> "BookingAPIError", message |-> message, status |-> status, at |-> at]

\* the number of the call being made
CallNumber == Len(rResponses) + 1

\* the value an operation returns, boxed
Returned(value) == [result |-> value]

\* the for loop's attempt++, its test, and the throw after the loop; le is
\* lastError as this step leaves it
NextIteration(le, generic) ==
    /\ attempt' = attempt + 1
    /\ IF attempt + 1 <= maxRetries
       THEN rPc' = "call" /\ rOutcome' = rOutcome
       ELSE rPc' = "thrown" /\ rOutcome' = (IF le # null THEN le ELSE generic)

GeocodingAfterRetries ==
    GeocodingError("Geocoding service unavailable after retries", 500, 0)

ReviewsAfterRetries ==
    ReviewError("Failed to fetch reviews after retries", 500, 0)

RetryInit ==
    /\ PipeIdle
    /\ MatchIdle
    /\ StoreIdle
    /\ GeoIdle
    /\ RestIdle
    /\ rImpl \in {"geocoding", "pricing", "reviews"}
    /\ rPc = "call"
    /\ attempt = 1
    /\ retryCount = 0
    /\ lastError = null
    /\ rResponses = <<>>
    /\ rOutcome = null

\* one pass of the loop body of callGoogleGeocodingAPI, up to its wait
GeocodingAttempt(resp) ==
    /\ rImpl = "geocoding"
    /\ rPc = "call"
    /\ rResponses' = Append(rResponses, resp)
    /\ LET throw(error) ==
               \* a GeocodingError: the catch stores it and throws it again
               /\ lastError' = error
               /\ rPc' = "thrown"
               /\ rOutcome' = error
               /\ attempt' = attempt
       IN  CASE resp.kind = "network" ->
                   /\ lastError' = FetchError(CallNumber)
                   /\ attempt' = attempt
                   /\ IF attempt = maxRetries
                      THEN rPc' = "thrown" /\ rOutcome' = lastError'
                      ELSE rPc' = "wait" /\ rOutcome' = rOutcome
             [] resp.kind = "http" /\ ~ResponseOk(resp) /\ resp.http = 429 ->
                   /\ rPc' = "wait"
                   /\ UNCHANGED <<attempt, lastError, rOutcome>>
             [] resp.kind = "http" /\ ~ResponseOk(resp) /\ resp.http # 429 ->
                   throw(GeocodingError("Google Geocoding API HTTP", resp.http, CallNumber))
             [] ResponseOk(resp) /\ resp.status = "OK" ->
                   /\ rPc' = "returned"
                   /\ rOutcome' = Returned(CallNumber)
                   /\ UNCHANGED <<attempt, lastError>>
             [] ResponseOk(resp) /\ resp.status = "ZERO_RESULTS" ->
                   /\ rPc' = "returned"
                   /\ rOutcome' = Returned(null)
                   /\ UNCHANGED <<attempt, lastError>>
             [] ResponseOk(resp) /\ resp.status = "OVER_QUERY_LIMIT" ->
                   throw(GeocodingError("Google Geocoding quota exceeded", 429, CallNumber))
             [] ResponseOk(resp) /\ resp.status = "REQUEST_DENIED" ->
                   throw(GeocodingError("Google Geocoding API access denied", 403, CallNumber))
             [] ResponseOk(resp) /\ resp.status = "INVALID_REQUEST" ->
                   throw(GeocodingError("Invalid geocoding request", 400, CallNumber))
             [] OTHER ->
                   throw(GeocodingError("Geocoding failed", 500, CallNumber))
    /\ UNCHANGED <<rImpl, retryCount>>
    /\ UNCHANGED <<pipeVars, matchVars, restVars, clockVars, clientVars, geoVars>>

\* mutant: a rate-limited call is retried whatever retryCount is
BookingAttempt_RetryAlways(resp) ==
    /\ rImpl = "pricing"
    /\ rPc = "call"
    /\ rResponses' = Append(rResponses, resp)
    /\ CASE resp.kind = "network" ->
                /\ rPc' = "thrown"
                /\ rOutcome' = BookingAPIError("Failed to connect to Booking.com API",
                                               500, CallNumber)
          [] resp.kind = "http" /\ ~ResponseOk(resp)
                /\ resp.http = 429 ->
                /\ rPc' = "wait"
                /\ rOutcome' = rOutcome
          [] resp.kind = "http" /\ ~ResponseOk(resp)
                /\ resp.http # 429 ->
                /\ rPc' = "thrown"
                /\ rOutcome' = BookingAPIError("Booking.com API request failed",
                                               resp.http, CallNumber)
          [] OTHER ->
                /\ rPc' = "returned"
                /\ rOutcome' = Returned(CallNumber)
    /\ UNCHANGED <<rImpl, attempt, retryCount, lastError>>
    /\ UNCHANGED <<pipeVars, matchVars, restVars, clockVars, clientVars, geoVars>>

\* one call of makeBookingAPIRequest, up to its wait
BookingAttempt(resp) ==
    /\ rImpl = "pricing"
    /\ rPc = "call"
    /\ rResponses' = Append(rResponses, resp)
    /\ CASE resp.kind = "network" ->
                /\ rPc' = "thrown"
                /\ rOutcome' = BookingAPIError("Failed to connect to Booking.com API",
                                               500, CallNumber)
          [] resp.kind = "http" /\ ~ResponseOk(resp)
                /\ resp.http = 429 /\ retryCount < MAX_RETRIES ->
                /\ rPc' = "wait"
                /\ rOutcome' = rOutcome
          [] resp.kind = "http" /\ ~ResponseOk(resp)
                /\ ~(resp.http = 429 /\ retryCount < MAX_RETRIES) ->
                /\ rPc' = "thrown"
                /\ rOutcome' = BookingAPIError("Booking.com API request failed",
                                               resp.http, CallNumber)
          [] OTHER ->
                /\ rPc' = "returned"
                /\ rOutcome' = Returned(CallNumber)
    /\ UNCHANGED <<rImpl, attempt, retryCount, lastError>>
    /\ UNCHANGED <<pipeVars, matchVars, restVars, clockVars, clientVars, geoVars>>

\* one pass of the loop body of fetchFromGooglePlaces, up to its wait
ReviewsAttempt(resp) ==
    /\ rImpl = "reviews"
    /\ rPc = "call"
    /\ rResponses' = Append(rResponses, resp)
    /\ LET caught(error) ==
               \* the catch stores the error, throws a ReviewError of status
               \* 400 again and lets the loop go on otherwise
               /\ lastError' = error
               /\ IF error.name = "ReviewError" /\ error.status = 400
                  THEN rPc' = "thrown" /\ rOutcome' = error /\ attempt' = attempt
                  ELSE NextIteration(error, ReviewsAfterRetries)
       IN  CASE resp.kind = "network" ->
                   caught(FetchError(CallNumber))
             [] resp.kind = "http" /\ ~ResponseOk(resp) /\ resp.http = 429 ->
                   /\ rPc' = "wait"
                   /\ UNCHANGED <<attempt, lastError, rOutcome>>
             [] resp.kind = "http" /\ ~ResponseOk(resp) /\ resp.http # 429 ->
                   caught(ReviewError("Google API HTTP", resp.http, CallNumber))
             [] ResponseOk(resp) /\ resp.status = "OK" ->
                   /\ rPc' = "returned"
                   /\ rOutcome' = Returned(CallNumber)
                   /\ UNCHANGED <<attempt, lastError>>
             [] ResponseOk(resp) /\ resp.status = "ZERO_RESULTS" ->
                   /\ rPc' = "returned"
                   /\ rOutcome' = Returned(<<>>)
                   /\ UNCHANGED <<attempt, lastError>>
             [] ResponseOk(resp) /\ resp.status = "OVER_QUERY_LIMIT" ->
                   /\ rPc' = "wait"
                   /\ UNCHANGED <<attempt, lastError, rOutcome>>
             [] OTHER ->
                   caught(ReviewError("Google API error", 500, CallNumber))
    /\ UNCHANGED <<rImpl, retryCount>>
    /\ UNCHANGED <<pipeVars, matchVars, restVars, clockVars, clientVars, geoVars>>

\* mutant: after the wait the operation gives up
RetryWait_GiveUp ==
    /\ rPc = "wait"
    /\ rPc' = "thrown"
    /\ rOutcome' = GeocodingAfterRetries
    /\ UNCHANGED <<rImpl, attempt, retryCount, lastError, rResponses>>
    /\ UNCHANGED <<pipeVars, matchVars, restVars, clockVars, clientVars, geoVars>>

\* the backoff timer fires: the loop goes to its next pass, makeBookingAPIRequest
\* calls itself with retryCount + 1
RetryWait ==
    /\ rPc = "wait"
    /\ IF rImpl = "pricing"
       THEN /\ retryCount' = retryCount + 1
            /\ rPc' = "call"
            /\ UNCHANGED <<attempt, rOutcome>>
       ELSE /\ NextIteration(lastError,
                             IF rImpl = "geocoding" THEN GeocodingAfterRetries
                             ELSE ReviewsAfterRetries)
            /\ retryCount' = retryCount
    /\ UNCHANGED <<rImpl, lastError, rResponses>>
    /\ UNCHANGED <<pipeVars, matchVars, restVars, clockVars, clientVars, geoVars>>

RetryNext ==
    \/ \E resp \in GoogleResponses : GeocodingAttempt(resp)
    \/ \E resp \in BookingResponses : BookingAttempt(resp)
    \/ \E resp \in GoogleResponses : ReviewsAttempt(resp)
    \/ RetryWait

RetrySpec == RetryInit /\ [][RetryNext]_vars

(***************************************************************************)
(* Specification CacheSpec: a client issues setCache, getCache and         *)
(* deleteCache commands on a few keys while the clock advances second by   *)
(* second.  Every command finds the store available or not.                *)
(***************************************************************************)
\* the clock stops here
MaxTime == 4

CacheKeys == {"k1", "k2"}
\* 0 is a falsy value that JSON can carry
CacheValues == {0, 7}
\* 0 stands for a call without ttl (ttl = null)
CacheTTLs == {0, 1, 2}

CacheInit ==
    /\ PipeIdle
    /\ MatchIdle
    /\ RetryIdle
    /\ StoreIdle
    /\ GeoIdle
    /\ RestIdle

ClientSet(key, value, ttl, storeOk) ==
    /\ cache' = setCache(cache, key, value, ttl, storeOk)
    /\ expireAt' = SetExpiry(expireAt, key, ttl, now, storeOk)
    /\ sResult' = [op |-> "set", key |-> key, ok |-> storeOk,
                   value |-> CommandResult(storeOk)]
    /\ written' = IF storeOk
                  THEN {w \in written : w.key # key}
                          \cup {[key |-> key, value |-> value, at |-> now,
                                 ttl |-> IF ttl # 0 THEN ttl ELSE DefaultCacheTTL]}
                  ELSE written
    /\ UNCHANGED <<now, requestVars, matchVars, restVars, retryVars, geoVars>>

ClientGet(key, storeOk) ==
    /\ sResult' = [op |-> "get", key |-> key, ok |-> storeOk,
                   value |-> getCache(cache, key, storeOk)]
    /\ UNCHANGED <<cache, now, expireAt, written, requestVars, matchVars, restVars,
                   retryVars, geoVars>>

ClientDelete(key, storeOk) ==
    /\ cache' = deleteCache(cache, key, storeOk)
    /\ expireAt' = DropExpiry(expireAt, key, storeOk)
    /\ sResult' = [op |-> "delete", key |-> key, ok |-> storeOk,
                   value |-> CommandResult(storeOk)]
    /\ written' = IF storeOk THEN {w \in written : w.key # key} ELSE written
    /\ UNCHANGED <<now, requestVars, matchVars, restVars, retryVars, geoVars>>

\* one second passes
Tick ==
    /\ now < MaxTime
    /\ now' = now + 1
    /\ cache' = ExpireEntries(cache, expireAt, now')
    /\ expireAt' = ExpireExpiries(expireAt, now')
    /\ sResult' = null
    /\ UNCHANGED <<written, requestVars, matchVars, restVars, retryVars, geoVars>>

CacheNext ==
    \/ \E key \in CacheKeys, value \in CacheValues, ttl \in CacheTTLs, storeOk \in BOOLEAN :
          ClientSet(key, value, ttl, storeOk)
    \/ \E key \in CacheKeys, storeOk \in BOOLEAN : ClientGet(key, storeOk)
    \/ \E key \in CacheKeys, storeOk \in BOOLEAN : ClientDelete(key, storeOk)
    \/ Tick

CacheSpec == CacheInit /\ [][CacheNext]_vars

(***************************************************************************)
(* Specification GeoSpec: sequential geocodeLocation calls.  Between two   *)
(* calls the clock may advance by half a day; the provider answers each    *)
(* call with a coordinate, with no result, or with an error.               *)
(***************************************************************************)
\* geocodeLocation calls per behaviour
MaxGeoRequests == 3

\* seconds per step of the clock, and the number of steps
GeoClockStep == 43200
MaxGeoSteps == 3

\* setCache(cacheKey, result, 86400)
GeocodeTTL == 86400

\* location.trim()
trim(s) ==
    LET idx == {k \in DOMAIN s : s[k] # " "}
        first == CHOOSE k \in idx : \A j \in idx : k <= j
        last == CHOOSE k \in idx : \A j \in idx : j <= k
    IN  IF idx = {} THEN <<>> ELSE SubSeq(s, first, last)

normalizedLocation(loc) == toLowerCase(trim(loc))

\* `geocode:${normalizedLocation}`
GeocodeKey(loc) == <<"geocode:">> \o normalizedLocation(loc)

\* mutant: a text of one character passes
InvalidLocation_OneCharacter(arg) ==
    \/ arg.typeof = "undefined"
    \/ arg.typeof = "number" /\ arg.value = 0
    \/ arg.typeof = "string" /\ arg.value = <<>>
    \/ arg.typeof # "string"
    \/ Len(trim(arg.value)) < 1

\* !location || typeof location !== 'string' || location.trim().length < 2,
\* for an argument given with its typeof
InvalidLocation(arg) ==
    \/ arg.typeof = "undefined"
    \/ arg.typeof = "number" /\ arg.value = 0
    \/ arg.typeof = "string" /\ arg.value = <<>>
    \/ arg.typeof # "string"
    \/ Len(trim(arg.value)) < 2

Locations ==
    { <<"A", "b">>, <<" ", "a", "B", " ">>, <<" ", "a", " ">>, <<>> }

\* an argument with its typeof
Argument(type, value) == [typeof |-> type, value |-> value]

\* the response time that trackAPICall measures for a provider call
GeoElapsed == 120

\* what callGoogleGeocodingAPI returns for an OK response
Coordinates == { [lat |-> 10, lng |-> 20], [lat |-> 11, lng |-> 20] }

\* what callGoogleGeocodingAPI does: a coordinate, null for ZERO_RESULTS, or
\* one of its errors (RetrySpec follows its loop)
ProviderOutcomes ==
    {Returned(c) : c \in Coordinates}
        \cup {Returned(null)}
        \cup {GeocodingError("Google Geocoding API access denied", 403, 1),
              FetchError(3)}

\* the record of a call that returned a coordinate: the text, the time, the
\* value, whether the provider was called and whether the store took the write
GeoCall(loc, value, fetched, stored) ==
    [location |-> loc, at |-> now, value |-> value,
     fetched |-> fetched, stored |-> stored]

GeoInit ==
    /\ PipeIdle
    /\ MatchIdle
    /\ RetryIdle
    /\ StoreIdle
    /\ GeoIdle
    /\ RestIdle

\* geocodeLocation(location): the validation
GeoRequest(arg) ==
    /\ gPc = "idle"
    /\ gRequests < MaxGeoRequests
    /\ gRequests' = gRequests + 1
    /\ location' = arg.value
    /\ gTypeof' = arg.typeof
    /\ gAnswer' = null
    /\ gCached' = null
    /\ result' = null
    /\ gCalls' = 0
    /\ gLookupOk' = FALSE
    /\ IF InvalidLocation(arg)
       THEN /\ gOutcome' = GeocodingError("Invalid location provided", 400, 0)
            /\ gPc' = "idle"
       ELSE /\ gOutcome' = null
            /\ gPc' = "lookup"
    /\ gHistory' = gHistory
    /\ UNCHANGED <<pipeVars, matchVars, restVars, retryVars, clockVars, clientVars>>

\* mutant: a provider call without result is recorded as a failure
GeoProvider_NullIsError(outcome) ==
    /\ gPc = "provider"
    /\ gCalls' = gCalls + 1
    /\ gAnswer' = outcome
    /\ LET started == trackStart(apiMetrics, "google_geocoding")
       IN  IF "result" \in DOMAIN outcome /\ outcome.result # null
           THEN /\ apiMetrics' = trackSuccess(started, "google_geocoding", GeoElapsed, now)
                /\ metricsCache' = pushRecentTime(metricsCache, "google_geocoding",
                                                  GeoElapsed)
                /\ systemMetrics' = [systemMetrics EXCEPT !.totalRequests = @ + 1]
           ELSE /\ apiMetrics' = trackError(started, "google_geocoding", GeoElapsed, now,
                                            "no result")
                /\ metricsCache' = metricsCache
                /\ systemMetrics' = [systemMetrics EXCEPT !.totalRequests = @ + 1,
                                                          !.totalErrors = @ + 1]
    /\ IF "result" \in DOMAIN outcome
       THEN IF outcome.result # null
            THEN /\ result' = outcome.result
                 /\ gPc' = "store"
                 /\ gOutcome' = gOutcome
            ELSE /\ result' = null
                 /\ gOutcome' = Returned(null)
                 /\ gPc' = "idle"
       ELSE /\ result' = null
            /\ gOutcome' = IF outcome.name = "GeocodingError"
                           THEN outcome
                           ELSE GeocodingError("Geocoding service temporarily unavailable", 500, 0)
            /\ gPc' = "idle"
    /\ UNCHANGED <<location, gCached, gLookupOk, gHistory, gRequests, gTypeof>>
    /\ UNCHANGED <<pipeVars, matchVars, siteVars, retryVars, clockVars, clientVars>>

\* mutant: the entry is looked up under the text as given
GeoLookup_RawKey(storeOk) ==
    /\ gPc = "lookup"
    /\ gLookupOk' = storeOk
    /\ gCached' = getCache(cache, <<"geocode:">> \o location, storeOk)
    /\ IF gCached' # null
       THEN /\ gOutcome' = Returned(gCached'.value)
            /\ gPc' = "idle"
            /\ gHistory' = Append(gHistory,
                   GeoCall(location, gCached'.value, FALSE, FALSE))
       ELSE /\ gPc' = "provider"
            /\ UNCHANGED <<gOutcome, gHistory>>
    /\ UNCHANGED <<location, result, gCalls, gRequests, gTypeof, gAnswer>>
    /\ UNCHANGED <<pipeVars, matchVars, restVars, retryVars, clockVars, clientVars>>

\* const cached = await getCache(cacheKey); if (cached) return cached
GeoLookup(storeOk) ==
    /\ gPc = "lookup"
    /\ gLookupOk' = storeOk
    /\ gCached' = getCache(cache, GeocodeKey(location), storeOk)
    /\ IF gCached' # null
       THEN /\ gOutcome' = Returned(gCached'.value)
            /\ gPc' = "idle"
            /\ gHistory' = Append(gHistory,
                   GeoCall(location, gCached'.value, FALSE, FALSE))
       ELSE /\ gPc' = "provider"
            /\ UNCHANGED <<gOutcome, gHistory>>
    /\ UNCHANGED <<location, result, gCalls, gRequests, gTypeof, gAnswer>>
    /\ UNCHANGED <<pipeVars, matchVars, restVars, retryVars, clockVars, clientVars>>

\* geocodeLocation without the test of its result before setCache
GeoProvider_StoreNull(outcome) ==
    /\ gPc = "provider"
    /\ gCalls' = gCalls + 1
    /\ gAnswer' = outcome
    /\ LET started == trackStart(apiMetrics, "google_geocoding")
       IN  IF "result" \in DOMAIN outcome
           THEN /\ apiMetrics' = trackSuccess(started, "google_geocoding", GeoElapsed, now)
                /\ metricsCache' = pushRecentTime(metricsCache, "google_geocoding",
                                                  GeoElapsed)
                /\ systemMetrics' = [systemMetrics EXCEPT !.totalRequests = @ + 1]
           ELSE /\ apiMetrics' = trackError(started, "google_geocoding", GeoElapsed, now,
                                            outcome.message)
                /\ metricsCache' = metricsCache
                /\ systemMetrics' = [systemMetrics EXCEPT !.totalRequests = @ + 1,
                                                          !.totalErrors = @ + 1]
    /\ IF "result" \in DOMAIN outcome
       THEN /\ result' = outcome.result
            /\ gPc' = "store"
            /\ gOutcome' = gOutcome
       ELSE /\ result' = null
            /\ gOutcome' = IF outcome.name = "GeocodingError"
                           THEN outcome
                           ELSE GeocodingError("Geocoding service temporarily unavailable", 500, 0)
            /\ gPc' = "idle"
    /\ UNCHANGED <<location, gCached, gLookupOk, gHistory, gRequests, gTypeof>>
    /\ UNCHANGED <<pipeVars, matchVars, siteVars, retryVars, clockVars, clientVars>>

\* trackAPICall('google_geocoding', () => callGoogleGeocodingAPI(location)),
\* the return of a null result, and the catch
GeoProvider(outcome) ==
    /\ gPc = "provider"
    /\ gCalls' = gCalls + 1
    /\ gAnswer' = outcome
    /\ LET started == trackStart(apiMetrics, "google_geocoding")
       IN  IF "result" \in DOMAIN outcome
           THEN /\ apiMetrics' = trackSuccess(started, "google_geocoding", GeoElapsed, now)
                /\ metricsCache' = pushRecentTime(metricsCache, "google_geocoding",
                                                  GeoElapsed)
                /\ systemMetrics' = [systemMetrics EXCEPT !.totalRequests = @ + 1]
           ELSE /\ apiMetrics' = trackError(started, "google_geocoding", GeoElapsed, now,
                                            outcome.message)
                /\ metricsCache' = metricsCache
                /\ systemMetrics' = [systemMetrics EXCEPT !.totalRequests = @ + 1,
                                                          !.totalErrors = @ + 1]
    /\ IF "result" \in DOMAIN outcome
       THEN IF outcome.result # null
            THEN /\ result' = outcome.result
                 /\ gPc' = "store"
                 /\ gOutcome' = gOutcome
            ELSE /\ result' = null
                 /\ gOutcome' = Returned(null)
                 /\ gPc' = "idle"
       ELSE /\ result' = null
            /\ gOutcome' = IF outcome.name = "GeocodingError"
                           THEN outcome
                           ELSE GeocodingError("Geocoding service temporarily unavailable", 500, 0)
            /\ gPc' = "idle"
    /\ UNCHANGED <<location, gCached, gLookupOk, gHistory, gRequests, gTypeof>>
    /\ UNCHANGED <<pipeVars, matchVars, siteVars, retryVars, clockVars, clientVars>>

\* await setCache(cacheKey, result, 86400); return result
GeoStore(storeOk) ==
    /\ gPc = "store"
    /\ cache' = setCache(cache, GeocodeKey(location), result, GeocodeTTL, storeOk)
    /\ expireAt' = SetExpiry(expireAt, GeocodeKey(location), GeocodeTTL, now, storeOk)
    /\ written' = IF storeOk
                  THEN {w \in written : w.key # GeocodeKey(location)}
                          \cup {[key |-> GeocodeKey(location), value |-> result,
                                 at |-> now, ttl |-> GeocodeTTL]}
                  ELSE written
    /\ gOutcome' = Returned(result)
    /\ gPc' = "idle"
    /\ gHistory' = Append(gHistory, GeoCall(location, result, TRUE, storeOk))
    /\ UNCHANGED <<location, gCached, result, gCalls, gLookupOk, gRequests, gTypeof,
                   gAnswer>>
    /\ UNCHANGED <<now, sResult, requestVars, matchVars, restVars, retryVars>>

\* half a day passes between two calls; the locals of the last call are gone
GeoTick ==
    /\ gPc = "idle"
    /\ now < MaxGeoSteps * GeoClockStep
    /\ now' = now + GeoClockStep
    /\ cache' = ExpireEntries(cache, expireAt, now')
    /\ expireAt' = ExpireExpiries(expireAt, now')
    /\ location' = null
    /\ gCached' = null
    /\ result' = null
    /\ gOutcome' = null
    /\ gCalls' = 0
    /\ gLookupOk' = FALSE
    /\ gTypeof' = "undefined"
    /\ gAnswer' = null
    /\ UNCHANGED <<gPc, gHistory, gRequests>>
    /\ UNCHANGED <<sResult, written, requestVars, matchVars, restVars, retryVars>>

GeoNext ==
    \/ \E loc \in Locations : GeoRequest(Argument("string", loc))
    \/ \E n \in {0, 42} : GeoRequest(Argument("number", n))
    \/ GeoRequest(Argument("undefined", null))
    \/ GeoRequest(Argument("object", << <<"A", "b">> >>))
    \/ \E storeOk \in BOOLEAN : GeoLookup(storeOk)
    \/ \E outcome \in ProviderOutcomes : GeoProvider(outcome)
    \/ \E storeOk \in BOOLEAN : GeoStore(storeOk)
    \/ GeoTick

GeoSpec == GeoInit /\ [][GeoNext]_vars

(***************************************************************************)
(* Specification ReverseSpec: sequential reverseGeocode calls.  The local  *)
(* variables of the call are those of GeoSpec; location holds the pair of  *)
(* arguments.                                                              *)
(***************************************************************************)
\* !x for an argument given with its typeof
Falsy(arg) ==
    \/ arg.typeof = "undefined"
    \/ arg.typeof = "number" /\ arg.value = 0
    \/ arg.typeof = "string" /\ arg.value = <<>>

\* isNaN(x); the strings given here are not numerals
isNaN(arg) == arg.typeof # "number"

\* `reverse_geocode:${lat},${lng}`
ReverseKey(lat, lng) == <<"reverse_geocode:", lat.value, lng.value>>

\* what callGoogleReverseGeocodingAPI does: an address, null for
\* ZERO_RESULTS, a GeocodingError, or the error of fetch
ReverseOutcomes ==
    {Returned([formatted_address |-> "5th Avenue", place_id |-> "p1"]),
     Returned(null),
     GeocodingError("Reverse geocoding failed", 500, 1),
     FetchError(1)}

ReverseInit ==
    /\ PipeIdle
    /\ MatchIdle
    /\ RetryIdle
    /\ StoreIdle
    /\ GeoIdle
    /\ RestIdle

\* reverseGeocode(lat, lng): the validation
ReverseRequest(lat, lng) ==
    /\ gPc = "idle"
    /\ gRequests < MaxGeoRequests
    /\ gRequests' = gRequests + 1
    /\ location' = [lat |-> lat, lng |-> lng]
    /\ gCached' = null
    /\ result' = null
    /\ gCalls' = 0
    /\ gLookupOk' = FALSE
    /\ gAnswer' = null
    /\ IF Falsy(lat) \/ Falsy(lng) \/ isNaN(lat) \/ isNaN(lng)
       THEN /\ gOutcome' = GeocodingError("Invalid coordinates provided", 400, 0)
            /\ gPc' = "idle"
       ELSE /\ gOutcome' = null
            /\ gPc' = "lookup"
    /\ UNCHANGED <<gHistory, gTypeof>>
    /\ UNCHANGED <<pipeVars, matchVars, restVars, retryVars, clockVars, clientVars>>

\* const cached = await getCache(cacheKey); if (cached) return cached
ReverseLookup(storeOk) ==
    /\ gPc = "lookup"
    /\ gLookupOk' = storeOk
    /\ gCached' = getCache(cache, ReverseKey(location.lat, location.lng), storeOk)
    /\ IF gCached' # null
       THEN gOutcome' = Returned(gCached'.value) /\ gPc' = "idle"
       ELSE gOutcome' = gOutcome /\ gPc' = "provider"
    /\ UNCHANGED <<location, result, gCalls, gRequests, gTypeof, gAnswer, gHistory>>
    /\ UNCHANGED <<pipeVars, matchVars, restVars, retryVars, clockVars, clientVars>>

\* trackAPICall('google_reverse_geocoding', ...), the return of a null
\* result, and the catch, which throws the error as it is
ReverseProvider(outcome) ==
    /\ gPc = "provider"
    /\ gCalls' = gCalls + 1
    /\ gAnswer' = outcome
    /\ LET started == trackStart(apiMetrics, "google_reverse_geocoding")
       IN  IF "result" \in DOMAIN outcome
           THEN /\ apiMetrics' = trackSuccess(started, "google_reverse_geocoding",
                                              GeoElapsed, now)
                /\ metricsCache' = pushRecentTime(metricsCache,
                                                  "google_reverse_geocoding", GeoElapsed)
                /\ systemMetrics' = [systemMetrics EXCEPT !.totalRequests = @ + 1]
                /\ result' = outcome.result
                /\ IF outcome.result # null
                   THEN gPc' = "store" /\ gOutcome' = gOutcome
                   ELSE gPc' = "idle" /\ gOutcome' = Returned(null)
           ELSE /\ apiMetrics' = trackError(started, "google_reverse_geocoding",
                                            GeoElapsed, now, outcome.message)
                /\ metricsCache' = metricsCache
                /\ systemMetrics' = [systemMetrics EXCEPT !.totalRequests = @ + 1,
                                                          !.totalErrors = @ + 1]
                /\ result' = null
                /\ gOutcome' = outcome
                /\ gPc' = "idle"
    /\ UNCHANGED <<location, gCached, gLookupOk, gHistory, gRequests, gTypeof>>
    /\ UNCHANGED <<pipeVars, matchVars, siteVars, retryVars, clockVars, clientVars>>

\* await setCache(cacheKey, result, 86400); return result
ReverseStore(storeOk) ==
    /\ gPc = "store"
    /\ cache' = setCache(cache, ReverseKey(location.lat, location.lng), result,
                         GeocodeTTL, storeOk)
    /\ expireAt' = SetExpiry(expireAt, ReverseKey(location.lat, location.lng),
                             GeocodeTTL, now, storeOk)
    /\ gOutcome' = Returned(result)
    /\ gPc' = "idle"
    /\ UNCHANGED <<location, gCached, result, gCalls, gLookupOk, gRequests, gTypeof,
                   gAnswer, gHistory>>
    /\ UNCHANGED <<now, clientVars, requestVars, matchVars, restVars, retryVars>>

ReverseNext ==
    \/ \E lat \in {0, BaseLatitude}, lng \in {0, BaseLongitude} :
          ReverseRequest(Argument("number", lat), Argument("number", lng))
    \/ ReverseRequest(Argument("string", <<"a", "b">>), Argument("number", BaseLongitude))
    \/ ReverseRequest(Argument("number", BaseLatitude), Argument("undefined", null))
    \/ \E storeOk \in BOOLEAN : ReverseLookup(storeOk)
    \/ \E outcome \in ReverseOutcomes : ReverseProvider(outcome)
    \/ \E storeOk \in BOOLEAN : ReverseStore(storeOk)

ReverseSpec == ReverseInit /\ [][ReverseNext]_vars

(***************************************************************************)
(* getHotelReviews(placeId): the validation, the lookup in the cache, the  *)
(* tracked call of fetchFromGooglePlaces, and the write of a list that is  *)
(* not empty.  The locals of the call are those of the geocoding calls:    *)
(* location is placeId, result is reviews.                                 *)
(***************************************************************************)
ReviewsTTL == 43200

ReviewsKey(placeId) == <<"reviews:">> \o placeId.value

\* what fetchFromGooglePlaces does: a list of reviews, the empty list for
\* ZERO_RESULTS or a place without reviews, a ReviewError, or the error of
\* fetch
ReviewsOutcomes ==
    {Returned(<<[author |-> "A", rating |-> 5]>>),
     Returned(<<[author |-> "A", rating |-> 5], [author |-> "B", rating |-> 3]>>),
     Returned(<<>>),
     ReviewError("Google API HTTP 403", 403, 1),
     ReviewsAfterRetries,
     FetchError(1)}

PlaceIds == {<<"p", "1">>, <<"p", "2">>, <<>>}

ReviewsInit == ReverseInit

ReviewsRequest(placeId) ==
    /\ gPc = "idle"
    /\ gRequests < MaxGeoRequests
    /\ gRequests' = gRequests + 1
    /\ location' = placeId
    /\ gCached' = null
    /\ result' = null
    /\ gCalls' = 0
    /\ gLookupOk' = FALSE
    /\ gAnswer' = null
    /\ IF Falsy(placeId) \/ placeId.typeof # "string"
       THEN /\ gOutcome' = ReviewError("Invalid place ID provided", 400, 0)
            /\ gPc' = "idle"
       ELSE /\ gOutcome' = null
            /\ gPc' = "lookup"
    /\ UNCHANGED <<gHistory, gTypeof>>
    /\ UNCHANGED <<pipeVars, matchVars, restVars, retryVars, clockVars, clientVars>>

\* const cached = await getCache(cacheKey); if (cached) return cached
ReviewsLookup(storeOk) ==
    /\ gPc = "lookup"
    /\ gLookupOk' = storeOk
    /\ gCached' = getCache(cache, ReviewsKey(location), storeOk)
    /\ IF gCached' # null
       THEN gOutcome' = Returned(gCached'.value) /\ gPc' = "idle"
       ELSE gOutcome' = gOutcome /\ gPc' = "provider"
    /\ UNCHANGED <<location, result, gCalls, gRequests, gTypeof, gAnswer, gHistory>>
    /\ UNCHANGED <<pipeVars, matchVars, restVars, retryVars, clockVars, clientVars>>

\* trackAPICall('google_places_reviews', ...), the test of the list, and the
\* catch, which throws a ReviewError as it is and any other error as a
\* ReviewError of its own
ReviewsFetch(outcome) ==
    /\ gPc = "provider"
    /\ gCalls' = gCalls + 1
    /\ gAnswer' = outcome
    /\ LET started == trackStart(apiMetrics, "google_places_reviews")
       IN  IF "result" \in DOMAIN outcome
           THEN /\ apiMetrics' = trackSuccess(started, "google_places_reviews",
                                              GeoElapsed, now)
                /\ metricsCache' = pushRecentTime(metricsCache,
                                                  "google_places_reviews", GeoElapsed)
                /\ systemMetrics' = [systemMetrics EXCEPT !.totalRequests = @ + 1]
                /\ result' = outcome.result
                /\ IF Len(outcome.result) > 0
                   THEN gPc' = "store" /\ gOutcome' = gOutcome
                   ELSE gPc' = "idle" /\ gOutcome' = Returned(outcome.result)
           ELSE /\ apiMetrics' = trackError(started, "google_places_reviews",
                                            GeoElapsed, now, outcome.message)
                /\ metricsCache' = metricsCache
                /\ systemMetrics' = [systemMetrics EXCEPT !.totalRequests = @ + 1,
                                                          !.totalErrors = @ + 1]
                /\ result' = null
                /\ gOutcome' = IF outcome.name = "ReviewError"
                               THEN outcome
                               ELSE ReviewError("Failed to fetch reviews from external service",
                                                500, 0)
                /\ gPc' = "idle"
    /\ UNCHANGED <<location, gCached, gLookupOk, gHistory, gRequests, gTypeof>>
    /\ UNCHANGED <<pipeVars, matchVars, siteVars, retryVars, clockVars, clientVars>>

\* await setCache(cacheKey, reviews, 43200); return reviews || []
ReviewsStore(storeOk) ==
    /\ gPc = "store"
    /\ cache' = setCache(cache, ReviewsKey(location), result, ReviewsTTL, storeOk)
    /\ expireAt' = SetExpiry(expireAt, ReviewsKey(location), ReviewsTTL, now, storeOk)
    /\ gOutcome' = Returned(result)
    /\ gPc' = "idle"
    /\ UNCHANGED <<location, gCached, result, gCalls, gLookupOk, gRequests, gTypeof,
                   gAnswer, gHistory>>
    /\ UNCHANGED <<now, clientVars, requestVars, matchVars, restVars, retryVars>>

ReviewsNext ==
    \/ \E placeId \in PlaceIds : ReviewsRequest(Argument("string", placeId))
    \/ ReviewsRequest(Argument("number", 7))
    \/ ReviewsRequest(Argument("undefined", null))
    \/ \E storeOk \in BOOLEAN : ReviewsLookup(storeOk)
    \/ \E outcome \in ReviewsOutcomes : ReviewsFetch(outcome)
    \/ \E storeOk \in BOOLEAN : ReviewsStore(storeOk)

ReviewsSpec == ReviewsInit /\ [][ReviewsNext]_vars

(***************************************************************************)
(* Specification MetricsSpec: the call sites of the external providers     *)
(* start provider calls, which complete in any order, while the health     *)
(* status is read and a window of response times may run out of its time   *)
(* to live in metricsCache.                                                *)
(***************************************************************************)
\* provider calls started in one run
MaxCalls == 3

\* response times in ms: a fast call and one slower than the 10 s limit
Latencies == {100, 30000}
\* how long a provider call that fails takes, ms
FailureLatencies == {100}

\* the call sites.  track says how the site uses trackAPICall: "wrapped" when
\* the provider call is the function given to it, "beside" when trackAPICall
\* is given a string and the provider call is made next to it, "none"
\* without trackAPICall.  loop says that the call is inside a retry loop.
\* These are the sites of the four providers of a search: geocoding,
\* discovery, pricing and reviews (reverseGeocode is in ReverseSpec).
CallSites ==
    {[site |-> "geocodeLocation", provider |-> "google_geocoding",
      track |-> "wrapped", loop |-> TRUE],
     [site |-> "getHotelReviews", provider |-> "google_places_reviews",
      track |-> "wrapped", loop |-> TRUE],
     [site |-> "searchHotelsWithPricing", provider |-> "booking",
      track |-> "beside", loop |-> TRUE],
     [site |-> "searchHotels", provider |-> "google",
      track |-> "none", loop |-> FALSE]}

MetricsInit ==
    /\ PipeIdle
    /\ MatchIdle
    /\ RetryIdle
    /\ StoreIdle
    /\ GeoIdle
    /\ RestIdle

\* the calls that have completed
Completed == {k \in DOMAIN calls : calls[k].state # "running"}

\* a call site starts its provider call.  Given a string, trackAPICall counts
\* the request, fails on apiCall() and counts an error, all before the
\* provider call is made.
SiteCall(s) ==
    /\ Len(calls) < MaxCalls
    /\ calls' = Append(calls,
          [site |-> s.site, provider |-> s.provider, track |-> s.track,
           loop |-> s.loop, state |-> "running", elapsed |-> 0, order |-> 0])
    /\ CASE s.track = "wrapped" ->
               /\ apiMetrics' = trackStart(apiMetrics, s.provider)
               /\ systemMetrics' = [systemMetrics EXCEPT !.totalRequests = @ + 1]
         [] s.track = "beside" ->
               /\ apiMetrics' = trackError(trackStart(apiMetrics, s.provider),
                                           s.provider, 0, now,
                                           "apiCall is not a function")
               /\ systemMetrics' = [systemMetrics EXCEPT !.totalRequests = @ + 1,
                                                         !.totalErrors = @ + 1]
         [] OTHER -> UNCHANGED <<apiMetrics, systemMetrics>>
    /\ health' = null
    /\ UNCHANGED <<metricsCache, pipeVars, matchVars, retryVars, clockVars,
                   clientVars, geoVars>>

\* the provider call of calls[k] returns after elapsed ms
CallReturns(k, elapsed) ==
    /\ k \in DOMAIN calls
    /\ calls[k].state = "running"
    /\ calls[k].track = "wrapped" \/ elapsed = 100
    /\ calls' = [calls EXCEPT ![k].state = "ok", ![k].elapsed = elapsed,
                              ![k].order = Cardinality(Completed) + 1]
    /\ IF calls[k].track = "wrapped"
       THEN /\ apiMetrics' = trackSuccess(apiMetrics, calls[k].provider, elapsed, now)
            /\ metricsCache' = pushRecentTime(metricsCache, calls[k].provider, elapsed)
       ELSE UNCHANGED <<apiMetrics, metricsCache>>
    /\ health' = null
    /\ UNCHANGED <<systemMetrics, pipeVars, matchVars, retryVars, clockVars,
                   clientVars, geoVars>>

\* mutant: the failure is not added to the system total
CallThrows_NoTotal(k, elapsed) ==
    /\ k \in DOMAIN calls
    /\ calls[k].state = "running"
    /\ calls[k].track = "wrapped" \/ elapsed = 100
    /\ calls' = [calls EXCEPT ![k].state = "failed", ![k].elapsed = elapsed,
                              ![k].order = Cardinality(Completed) + 1]
    /\ IF calls[k].track = "wrapped"
       THEN apiMetrics' = trackError(apiMetrics, calls[k].provider, elapsed, now,
                                     "provider call failed")
       ELSE UNCHANGED apiMetrics
    /\ health' = null
    /\ UNCHANGED <<systemMetrics, metricsCache, pipeVars, matchVars, retryVars,
                   clockVars, clientVars, geoVars>>

\* the provider call of calls[k] throws after elapsed ms
CallThrows(k, elapsed) ==
    /\ k \in DOMAIN calls
    /\ calls[k].state = "running"
    /\ calls[k].track = "wrapped" \/ elapsed = 100
    /\ calls' = [calls EXCEPT ![k].state = "failed", ![k].elapsed = elapsed,
                              ![k].order = Cardinality(Completed) + 1]
    /\ IF calls[k].track = "wrapped"
       THEN /\ apiMetrics' = trackError(apiMetrics, calls[k].provider, elapsed, now,
                                        "provider call failed")
            /\ systemMetrics' = [systemMetrics EXCEPT !.totalErrors = @ + 1]
       ELSE UNCHANGED <<apiMetrics, systemMetrics>>
    /\ health' = null
    /\ UNCHANGED <<metricsCache, pipeVars, matchVars, retryVars, clockVars,
                   clientVars, geoVars>>

\* a caller reads the health status
HealthCheck ==
    /\ health = null
    /\ health' = getAPIHealthStatus
    /\ UNCHANGED <<calls, metricVars, pipeVars, matchVars, retryVars, clockVars,
                   clientVars, geoVars>>

\* new NodeCache({ stdTTL: 86400 }): a window not written for 24 h is gone.
\* A provider call lasts seconds, so none is in flight over that time.
RecentTimesExpire(provider) ==
    /\ provider \in DOMAIN metricsCache
    /\ Completed = DOMAIN calls
    /\ metricsCache' = [p \in DOMAIN metricsCache \ {provider} |-> metricsCache[p]]
    /\ health' = null
    /\ UNCHANGED <<calls, apiMetrics, systemMetrics, pipeVars, matchVars, retryVars,
                   clockVars, clientVars, geoVars>>

MetricsNext ==
    \/ \E s \in CallSites : SiteCall(s)
    \/ \E k \in 1..MaxCalls, elapsed \in Latencies : CallReturns(k, elapsed)
    \/ \E k \in 1..MaxCalls, elapsed \in FailureLatencies : CallThrows(k, elapsed)
    \/ HealthCheck
    \/ \E s \in CallSites : RecentTimesExpire(s.provider)

MetricsSpec == MetricsInit /\ [][MetricsNext]_vars

(***************************************************************************)
(* Specification ResetSpec: MetricsSpec with resetMetrics (POST            *)
(* /api/metrics/reset) called at any moment, also while provider calls     *)
(* are in flight.                                                          *)
(***************************************************************************)
\* resetMetrics(): every provider's entry is replaced by a fresh object, its
\* window is deleted, the system counters are set to 0
ResetMetrics ==
    /\ apiMetrics' = [p \in DOMAIN apiMetrics |-> NewProviderMetrics]
    /\ metricsCache' = [p \in DOMAIN metricsCache \ DOMAIN apiMetrics |-> metricsCache[p]]
    /\ systemMetrics' = [systemMetrics EXCEPT !.totalRequests = 0, !.totalErrors = 0,
                                              !.cacheHits = 0, !.cacheMisses = 0]
    /\ health' = null
    /\ UNCHANGED <<calls, pipeVars, matchVars, retryVars, clockVars, clientVars,
                   geoVars>>

ResetNext == MetricsNext \/ ResetMetrics

ResetSpec == MetricsInit /\ [][ResetNext]_vars

(***************************************************************************)
(* Specification ValidationSpec: searchHotels from its call to the answer  *)
(* of the discovery provider, on typed arguments.  What follows the        *)
(* discovery answer is the subject of Spec.                                *)
(***************************************************************************)
\* coordinates in whole degrees: on the equator or the prime meridian, in
\* range, and out of range
Latitudes == {0, 40, 91}
Longitudes == {0, 0 - 74, 181}

\* guest counts
GuestCounts == {0 - 1, 0, 1, 2, 10, 11}

CheckInDate == <<"2026", "-", "01", "-", "10">>
CheckOutDate == <<"2026", "-", "01", "-", "12">>

\* parseInt(guests) || 2 on an integer or a missing argument
parseIntOr2(guests) ==
    IF guests.typeof = "number" /\ guests.value # 0 THEN guests.value ELSE 2

\* throw new Error(message)
Error(message) == [error |-> "Error", message |-> message]

ValidationInit == Init

\* searchHotels({ latitude, longitude, checkIn, checkOut, guests }) up to
\* the fetch of the discovery provider
SearchHotelsCall(latitude, longitude, checkIn, checkOut, guests) ==
    /\ pc \in {"idle", "thrown"}
    /\ requests < MaxRequests
    /\ requests' = requests + 1
    /\ LET guestCount == parseIntOr2(guests)
       IN  /\ query' = [latitude |-> latitude, longitude |-> longitude,
                        checkIn |-> checkIn, checkOut |-> checkOut,
                        guests |-> guests, guestCount |-> guestCount]
           /\ IF Falsy(latitude) \/ Falsy(longitude) \/ isNaN(latitude)
                  \/ isNaN(longitude)
              THEN /\ response' = Error("Invalid coordinates provided")
                   /\ pc' = "thrown"
              ELSE IF Falsy(checkIn) \/ Falsy(checkOut)
              THEN /\ response' = Error("Check-in and check-out dates are required")
                   /\ pc' = "thrown"
              ELSE IF guestCount < 1 \/ guestCount > 10
              THEN /\ response' = Error("Guest count must be between 1 and 10")
                   /\ pc' = "thrown"
              ELSE /\ response' = null
                   /\ pc' = "discover"
    /\ googleHotels' = <<>>
    /\ cached' = null
    /\ i' = 0
    /\ enrichedHotels' = <<>>
    /\ discoveryCalls' = 0
    /\ pricingCalls' = 0
    /\ batchLog' = <<>>
    /\ lookupOk' = FALSE
    /\ lastSetCache' = null
    /\ UNCHANGED <<cache, offPipeVars>>

ValidationNext ==
    \/ \E lat \in Latitudes, lng \in Longitudes, n \in GuestCounts :
          SearchHotelsCall(Argument("number", lat), Argument("number", lng),
                           Argument("string", CheckInDate),
                           Argument("string", CheckOutDate), Argument("number", n))
    \/ \E lng \in Longitudes :
          SearchHotelsCall(Argument("undefined", null), Argument("number", lng),
                           Argument("string", CheckInDate),
                           Argument("string", CheckOutDate), Argument("number", 2))
    \/ \E lat \in Latitudes, n \in GuestCounts :
          SearchHotelsCall(Argument("number", lat), Argument("number", 0 - 74),
                           Argument("undefined", null),
                           Argument("string", CheckOutDate), Argument("number", n))
    \/ \E lat \in Latitudes :
          SearchHotelsCall(Argument("number", lat), Argument("number", 0 - 74),
                           Argument("string", CheckInDate),
                           Argument("string", CheckOutDate),
                           Argument("undefined", null))
    \/ \E hotels \in DiscoveryLists : DiscoverOk(hotels)
    \/ DiscoverFail

ValidationSpec == ValidationInit /\ [][ValidationNext]_vars

(***************************************************************************)
(* Specification BatchSpec: the loop of enrichHotelsWithPricing on a clock *)
(* (ms).  Each await of the loop is a step of its own: the pricing call    *)
(* starts, it returns or throws some time later, the timer fires.          *)
(***************************************************************************)
\* longest discovery result of BatchSpec
MaxBatchHotels == 5

\* how long a pricing call takes, ms
PricingLatencies == {200, 1500}

\* by how much a 1000 ms timer may fire late, ms
TimerLateness == {0, 7}

BatchHotel(k) ==
    GoogleHotel(<<"g", k>>, IF k % 3 = 0 THEN NameXy ELSE NameAbcde,
                IF k % 2 = 1 THEN <<"x">> ELSE <<"y">>, 45, BaseLatitude)

BatchDiscoveryLists == {[k \in 1..n |-> BatchHotel(k)] : n \in 0..MaxBatchHotels}

offBatchVars == <<matchVars, retryVars, expireAt, clientVars, geoVars, metricVars,
                  health>>

BatchInit == Init

\* searchHotels has its hotels and calls enrichHotelsWithPricing
EnrichRequest(hotels, q) ==
    /\ pc = "idle"
    /\ requests' = requests + 1
    /\ discoveryCalls' = 1
    /\ query' = q
    /\ googleHotels' = hotels
    /\ pc' = "getCache"
    /\ UNCHANGED <<cache, cached, i, enrichedHotels, response, pricingCalls,
                   batchLog, lookupOk, lastSetCache, offPipeVars>>

\* const batch = hotels.slice(i, i + BATCH_SIZE); searchBookingHotels is called
PricingCallStarts ==
    /\ pc = "batch"
    /\ i < Len(googleHotels)
    /\ LET batch == slice(googleHotels, i, i + BATCH_SIZE)
       IN  calls' = Append(calls, [from |-> i, size |-> Len(batch), start |-> now,
                                   state |-> "running", end |-> now])
    /\ pricingCalls' = pricingCalls + 1
    /\ pc' = "pricing"
    /\ UNCHANGED <<cache, query, googleHotels, cached, i, enrichedHotels, response,
                   requests, discoveryCalls, batchLog, lookupOk, lastSetCache, now,
                   offBatchVars>>

\* searchBookingHotels returns bookingResults after elapsed ms
PricingCallReturns(bookingResults, elapsed) ==
    /\ pc = "pricing"
    /\ now' = now + elapsed
    /\ calls' = [calls EXCEPT ![Len(calls)].state = "ok", ![Len(calls)].end = now']
    /\ LET batch == slice(googleHotels, i, i + BATCH_SIZE)
       IN  enrichedHotels' = enrichedHotels \o EnrichBatch(batch, bookingResults)
    /\ batchLog' = Append(batchLog, [start |-> i, failed |-> FALSE,
                                     results |-> bookingResults])
    /\ AfterBatch
    /\ UNCHANGED <<cache, query, googleHotels, cached, response, requests,
                   discoveryCalls, pricingCalls, lookupOk, lastSetCache,
                   offBatchVars>>

\* searchBookingHotels throws after elapsed ms
PricingCallThrows(elapsed) ==
    /\ pc = "pricing"
    /\ now' = now + elapsed
    /\ calls' = [calls EXCEPT ![Len(calls)].state = "failed", ![Len(calls)].end = now']
    /\ LET batch == slice(googleHotels, i, i + BATCH_SIZE)
       IN  enrichedHotels' = enrichedHotels \o FailedBatch(batch)
    /\ batchLog' = Append(batchLog, [start |-> i, failed |-> TRUE, results |-> <<>>])
    /\ AfterBatch
    /\ UNCHANGED <<cache, query, googleHotels, cached, response, requests,
                   discoveryCalls, pricingCalls, lookupOk, lastSetCache,
                   offBatchVars>>

\* the timer of setTimeout(resolve, 1000) fires; i += BATCH_SIZE
DelayElapsed(late) ==
    /\ pc = "delay"
    /\ now' = now + 1000 + late
    /\ i' = i + BATCH_SIZE
    /\ pc' = "batch"
    /\ UNCHANGED <<cache, query, googleHotels, cached, enrichedHotels, response,
                   requests, discoveryCalls, pricingCalls, batchLog, lookupOk,
                   lastSetCache, calls, offBatchVars>>

BatchNext ==
    \/ \E hotels \in BatchDiscoveryLists, q \in Queries : EnrichRequest(hotels, q)
    \/ EnrichLookup
    \/ PricingCallStarts
    \/ \E bookingResults \in PricingResponses, elapsed \in PricingLatencies :
          PricingCallReturns(bookingResults, elapsed)
    \/ \E elapsed \in PricingLatencies : PricingCallThrows(elapsed)
    \/ \E late \in TimerLateness : DelayElapsed(late)
    \/ EnrichStore
    \/ SortAndReturn

BatchSpec == BatchInit /\ [][BatchNext]_vars

(***************************************************************************)
(* Specification TerminationSpec: searchHotels requests, one after         *)
(* another, in which the pricing call of a batch is the two requests of    *)
(* searchHotelsWithPricing (search, then details), each one a run of       *)
(* makeBookingAPIRequest with its retries.  Every step but the arrival of  *)
(* a request is weakly fair: a provider that is called answers, a timer    *)
(* that is set fires, a command sent to the store completes.               *)
(***************************************************************************)
TerminationInit == Init

\* makeBookingAPIRequest(endpoint, body) is called, retryCount = 0
BookingRequestStarts ==
    /\ rImpl' = "pricing"
    /\ rPc' = "call"
    /\ retryCount' = 0
    /\ rResponses' = <<>>
    /\ rOutcome' = null
    /\ UNCHANGED <<attempt, lastError>>

\* makeBookingAPIRequest has returned or thrown into its caller; its locals
\* are gone
BookingRequestOver ==
    /\ rImpl' = "none"
    /\ rPc' = "idle"
    /\ retryCount' = 0
    /\ rResponses' = <<>>
    /\ rOutcome' = null
    /\ UNCHANGED <<attempt, lastError>>

offTerminationVars == <<matchVars, clockVars, clientVars, geoVars, restVars>>

\* the loop test, hotels.slice(i, i + BATCH_SIZE), and searchBookingHotels up
\* to its request '/accommodations/search'
SearchRequest ==
    /\ pc = "batch"
    /\ i < Len(googleHotels)
    /\ pricingCalls' = pricingCalls + 1
    /\ pc' = "pricing"
    /\ BookingRequestStarts
    /\ UNCHANGED <<cache, query, googleHotels, cached, i, enrichedHotels, response,
                   requests, discoveryCalls, batchLog, lookupOk, lastSetCache,
                   offTerminationVars>>

\* the search has answered; the request '/accommodations/details'
DetailsRequest ==
    /\ pc = "pricing"
    /\ rPc = "returned"
    /\ pc' = "details"
    /\ BookingRequestStarts
    /\ UNCHANGED <<cache, query, googleHotels, cached, i, enrichedHotels, response,
                   requests, discoveryCalls, pricingCalls, batchLog, lookupOk,
                   lastSetCache, offTerminationVars>>

\* searchBookingHotels returns bookingResults: the details have answered, or
\* its own cache held the list and no request was sent; the hotels of the
\* batch are matched
PricingReturns(bookingResults) ==
    /\ \/ pc = "details" /\ rPc = "returned"
       \/ pc = "pricing" /\ rPc = "call" /\ rResponses = <<>>
    /\ LET batch == slice(googleHotels, i, i + BATCH_SIZE)
       IN  enrichedHotels' = enrichedHotels \o EnrichBatch(batch, bookingResults)
    /\ batchLog' = Append(batchLog, [start |-> i, failed |-> FALSE,
                                     results |-> bookingResults])
    /\ AfterBatch
    /\ BookingRequestOver
    /\ UNCHANGED <<cache, query, googleHotels, cached, response, requests,
                   discoveryCalls, pricingCalls, lookupOk, lastSetCache,
                   offTerminationVars>>

\* one of the two requests has thrown: searchBookingHotels throws it again,
\* and the catch of the batch marks its hotels
PricingThrows ==
    /\ pc \in {"pricing", "details"}
    /\ rPc = "thrown"
    /\ LET batch == slice(googleHotels, i, i + BATCH_SIZE)
       IN  enrichedHotels' = enrichedHotels \o FailedBatch(batch)
    /\ batchLog' = Append(batchLog, [start |-> i, failed |-> TRUE, results |-> <<>>])
    /\ AfterBatch
    /\ BookingRequestOver
    /\ UNCHANGED <<cache, query, googleHotels, cached, response, requests,
                   discoveryCalls, pricingCalls, lookupOk, lastSetCache,
                   offTerminationVars>>

\* what the provider answers to one call: rate limited, a server error, no
\* answer at all, or the data
TerminationResponses ==
    {HttpResponse(429, ""), HttpResponse(500, ""), NetworkFailure, HttpResponse(200, "")}

\* the steps of a request that is under way
TerminationSteps ==
    \/ \E n \in 0..MaxHotels : DiscoverOk([k \in 1..n |-> BatchHotel(k)])
    \/ DiscoverFail
    \/ EnrichLookup
    \/ SearchRequest
    \/ \E resp \in TerminationResponses : BookingAttempt(resp)
    \/ RetryWait
    \/ DetailsRequest
    \/ PricingReturns(<<Booking1, Booking2>>)
    \/ PricingThrows
    \/ DelayElapsed(0)
    \/ EnrichStore
    \/ SortAndReturn

TerminationNext ==
    \/ \E q \in Queries : Request(q)
    \/ TerminationSteps

TerminationSpec ==
    TerminationInit /\ [][TerminationNext]_vars /\ WF_vars(TerminationSteps)

(***************************************************************************)
(* Specification RaceSpec: searchHotels requests in flight together for    *)
(* one query and one discovery result, hence one hotel-pricing key.  The   *)
(* requests are the entries of calls; each step is the code of             *)
(* enrichHotelsWithPricing between two awaits of one request.              *)
(***************************************************************************)
\* requests in flight together
MaxConcurrent == 2

offRaceVars == <<pc, cached, i, enrichedHotels, response, requests, discoveryCalls,
                 pricingCalls, batchLog, lookupOk, lastSetCache, matchVars,
                 retryVars, clockVars, clientVars, geoVars, metricVars, health>>

RaceInit == Init

\* a request has its discovery records and calls enrichHotelsWithPricing
ConcurrentRequest(hotels, q) ==
    /\ Len(calls) < MaxConcurrent
    /\ calls # <<>> => hotels = googleHotels /\ q = query
    /\ googleHotels' = hotels
    /\ query' = q
    /\ calls' = Append(calls, [pc |-> "getCache", i |-> 0, hit |-> FALSE,
                               enrichedHotels |-> <<>>, answers |-> <<>>,
                               wrote |-> <<>>])
    /\ UNCHANGED <<cache, offRaceVars>>

\* const cached = await getCache(cacheKey); if (cached) return cached;
ConcurrentLookup(r, storeOk) ==
    /\ r \in DOMAIN calls
    /\ calls[r].pc = "getCache"
    /\ LET found == getCache(cache, cacheKey(googleHotels, query), storeOk)
       IN  calls' = [calls EXCEPT ![r] =
                IF found # null
                THEN [@ EXCEPT !.hit = TRUE, !.enrichedHotels = found.value,
                               !.pc = "returned"]
                ELSE [@ EXCEPT !.pc = IF 0 < Len(googleHotels) THEN "batch"
                                      ELSE "setCache"]]
    /\ UNCHANGED <<cache, googleHotels, query, offRaceVars>>

\* the state of request r after the batch at its index gave the entries
ConcurrentAfterBatch(r, entries, answer) ==
    [calls EXCEPT ![r] =
        [@ EXCEPT !.enrichedHotels = @ \o entries,
                  !.answers = Append(@, answer),
                  !.pc = IF calls[r].i + BATCH_SIZE < Len(googleHotels)
                         THEN "delay" ELSE "setCache"]]

\* the pricing call of the batch of request r returns bookingResults
ConcurrentBatchReturns(r, bookingResults) ==
    /\ r \in DOMAIN calls
    /\ calls[r].pc = "batch"
    /\ LET batch == slice(googleHotels, calls[r].i, calls[r].i + BATCH_SIZE)
       IN  calls' = ConcurrentAfterBatch(r, EnrichBatch(batch, bookingResults),
                                         Returned(bookingResults))
    /\ UNCHANGED <<cache, googleHotels, query, offRaceVars>>

\* the pricing call of the batch of request r throws
ConcurrentBatchThrows(r) ==
    /\ r \in DOMAIN calls
    /\ calls[r].pc = "batch"
    /\ LET batch == slice(googleHotels, calls[r].i, calls[r].i + BATCH_SIZE)
       IN  calls' = ConcurrentAfterBatch(r, FailedBatch(batch), Returned(<<>>))
    /\ UNCHANGED <<cache, googleHotels, query, offRaceVars>>

\* the 1000 ms timer of request r fires
ConcurrentDelay(r) ==
    /\ r \in DOMAIN calls
    /\ calls[r].pc = "delay"
    /\ calls' = [calls EXCEPT ![r].i = @ + BATCH_SIZE, ![r].pc = "batch"]
    /\ UNCHANGED <<cache, googleHotels, query, offRaceVars>>

\* await setCache(cacheKey, enrichedHotels, 1800); return enrichedHotels
ConcurrentStore(r, storeOk) ==
    /\ r \in DOMAIN calls
    /\ calls[r].pc = "setCache"
    /\ cache' = setCache(cache, cacheKey(googleHotels, query),
                         calls[r].enrichedHotels, PricingCacheTTL, storeOk)
    /\ calls' = [calls EXCEPT ![r].pc = "returned",
                              ![r].wrote = IF storeOk THEN <<calls[r].enrichedHotels>>
                                           ELSE <<>>]
    /\ UNCHANGED <<googleHotels, query, offRaceVars>>

RaceNext ==
    \/ \E hotels \in DiscoveryLists, q \in Queries : ConcurrentRequest(hotels, q)
    \/ \E r \in 1..MaxConcurrent, storeOk \in BOOLEAN : ConcurrentLookup(r, storeOk)
    \/ \E r \in 1..MaxConcurrent, bookingResults \in PricingResponses :
          ConcurrentBatchReturns(r, bookingResults)
    \/ \E r \in 1..MaxConcurrent : ConcurrentBatchThrows(r)
    \/ \E r \in 1..MaxConcurrent : ConcurrentDelay(r)
    \/ \E r \in 1..MaxConcurrent, storeOk \in BOOLEAN : ConcurrentStore(r, storeOk)

RaceSpec == RaceInit /\ [][RaceNext]_vars

(***************************************************************************)
(* Specification SimilaritySpec: calculateStringSimilarity on every pair   *)
(* of strings over two letters up to MaxLength, called with the arguments  *)
(* in one order and then in the other.                                     *)
(***************************************************************************)
MaxLength == 3

SimilarityStrings == UNION {[1..n -> {"a", "b"}] : n \in 0..MaxLength}

SimilarityInit ==
    /\ PipeIdle
    /\ RetryIdle
    /\ StoreIdle
    /\ GeoIdle
    /\ RestIdle
    /\ mPc = "call"
    /\ mGoogle \in SimilarityStrings
    /\ mBooking \in SimilarityStrings
    /\ mResult = null
    /\ mPrev = null

\* calculateStringSimilarity(str1, str2)
SimilarityCall ==
    /\ mPc = "call"
    /\ mResult' = [value |-> calculateStringSimilarity(mGoogle, mBooking)]
    /\ mPc' = "return"
    /\ UNCHANGED <<mGoogle, mBooking, mPrev>>
    /\ UNCHANGED <<pipeVars, retryVars, clockVars, clientVars, geoVars, restVars>>

\* calculateStringSimilarity(str2, str1)
SimilaritySwapped ==
    /\ mPc = "return"
    /\ mPrev' = mResult
    /\ mResult' = [value |-> calculateStringSimilarity(mBooking, mGoogle)]
    /\ mPc' = "swapped"
    /\ UNCHANGED <<mGoogle, mBooking>>
    /\ UNCHANGED <<pipeVars, retryVars, clockVars, clientVars, geoVars, restVars>>

SimilarityNext == SimilarityCall \/ SimilaritySwapped

SimilaritySpec == SimilarityInit /\ [][SimilarityNext]_vars

(***************************************************************************)
(* Properties of findBestBookingMatch, checked under MatchSpec.            *)
(***************************************************************************)
SameNameIgnoringCase(googleHotel, bookingHotel) ==
    toLowerCase(bookingHotel.name) = toLowerCase(googleHotel.name)

HasExactName == \E k \in DOMAIN mBooking : SameNameIgnoringCase(mGoogle, mBooking[k])

\* C9: when some pricing record has the discovery record's name ignoring
\* letter case, the call returns the first such record of the list, whatever
\* the distances, ratings and scores of the candidates are.
C9_ExactNameReturnsFirst ==
    mPc = "return" =>
        \A k \in DOMAIN mBooking :
            (/\ SameNameIgnoringCase(mGoogle, mBooking[k])
             /\ \A l \in 1..(k - 1) : ~SameNameIgnoringCase(mGoogle, mBooking[l]))
            => mResult = mBooking[k]

\* C9 witness: the returned record is the second of the list, has the name in
\* another letter case, lies 500 m away and scores below the threshold,
\* while the first record scores above the threshold.
C9_Witness ==
    /\ mPc = "return"
    /\ Len(mBooking) = 2
    /\ ~SameNameIgnoringCase(mGoogle, mBooking[1])
    /\ calculateMatchScore(mGoogle, mBooking[1]) > MatchThreshold
    /\ SameNameIgnoringCase(mGoogle, mBooking[2])
    /\ mBooking[2].name # mGoogle.name
    /\ calculateDistance(mGoogle.latitude, mGoogle.longitude,
                         mBooking[2].latitude, mBooking[2].longitude) >= 500
    /\ calculateMatchScore(mGoogle, mBooking[2]) <= MatchThreshold
    /\ mResult = mBooking[2]

\* C10: without an exact name match the call returns a candidate of the
\* highest score when that score is strictly greater than 0.7, and null
\* otherwise (also for the empty list and for a highest score of exactly 0.7).
C10_BestScoreAboveThreshold ==
    (mPc = "return" /\ ~HasExactName) =>
        IF \E k \in DOMAIN mBooking : calculateMatchScore(mGoogle, mBooking[k]) > MatchThreshold
        THEN \E k \in DOMAIN mBooking :
                /\ mResult = mBooking[k]
                /\ \A l \in DOMAIN mBooking :
                      calculateMatchScore(mGoogle, mBooking[l])
                          <= calculateMatchScore(mGoogle, mBooking[k])
        ELSE mResult = null

\* C10 witness: two candidates, none with the exact name; the second scores
\* higher than the first and above the threshold and is returned.
C10_Witness ==
    /\ mPc = "return"
    /\ ~HasExactName
    /\ Len(mBooking) = 2
    /\ calculateMatchScore(mGoogle, mBooking[2]) > calculateMatchScore(mGoogle, mBooking[1])
    /\ calculateMatchScore(mGoogle, mBooking[2]) > MatchThreshold
    /\ mResult = mBooking[2]

\* a best score of exactly 0.7 is reached and gives null
C10_ExactThresholdReached ==
    /\ mPc = "return"
    /\ ~HasExactName
    /\ \E k \in DOMAIN mBooking : calculateMatchScore(mGoogle, mBooking[k]) = MatchThreshold
    /\ \A k \in DOMAIN mBooking : calculateMatchScore(mGoogle, mBooking[k]) <= MatchThreshold
    /\ mResult = null

\* C11: a repeated call with the same discovery record and the same list
\* returns the same record; and without an exact name the returned record is
\* the first in list order among the candidates of the highest score.
C11_DeterministicFirstOfTies ==
    /\ mPc = "repeat" => mResult = mPrev
    /\ (mPc \in {"return", "repeat"} /\ ~HasExactName /\ mResult # null) =>
          \E k \in DOMAIN mBooking :
              /\ mResult = mBooking[k]
              /\ \A l \in DOMAIN mBooking :
                    calculateMatchScore(mGoogle, mBooking[l])
                        <= calculateMatchScore(mGoogle, mBooking[k])
              /\ \A l \in 1..(k - 1) :
                    calculateMatchScore(mGoogle, mBooking[l])
                        < calculateMatchScore(mGoogle, mBooking[k])

\* C11 witness: two different candidates share the highest score, above the
\* threshold; both calls returned the first one.
C11_Witness ==
    /\ mPc = "repeat"
    /\ ~HasExactName
    /\ Len(mBooking) = 2
    /\ mBooking[1] # mBooking[2]
    /\ calculateMatchScore(mGoogle, mBooking[1]) = calculateMatchScore(mGoogle, mBooking[2])
    /\ calculateMatchScore(mGoogle, mBooking[1]) > MatchThreshold
    /\ mResult = mBooking[1]
    /\ mPrev = mBooking[1]

(***************************************************************************)
(* Properties of the pipeline, checked under Spec.                         *)
(***************************************************************************)
Range(seq) == {seq[k] : k \in DOMAIN seq}

\* enrichHotelsWithPricing has returned, after a miss or after a hit
EnrichReturned == pc \in {"sort", "returned"}
MissReturned == EnrichReturned /\ cached = null
HitReturned == EnrichReturned /\ cached # null
\* searchHotels has returned the sorted list of a miss
MissAnswered == pc = "returned" /\ cached = null

NumBatches(n) == (n + BATCH_SIZE - 1) \div BATCH_SIZE

\* what the pricing call gave for the batch of the hotel at position p (from 1)
LogOf(p) == batchLog[((p - 1) \div BATCH_SIZE) + 1]

SomeBatchFailed == \E b \in DOMAIN batchLog : batchLog[b].failed
SomeBatchSucceeded == \E b \in DOMAIN batchLog : ~batchLog[b].failed

\* C1: a pricing call that throws does not make the request throw; the
\* hotels of that batch are in the result with available = false, price =
\* null and the error tag; the pricing call of every batch is made, the later
\* ones included; and every hotel of another batch is in the result exactly as
\* the matching against its own batch's pricing records gives it.
C1_BatchFailureIsolated ==
    /\ pc = "thrown" => (pricingCalls = 0 /\ batchLog = <<>>)
    /\ MissAnswered =>
        /\ pricingCalls = NumBatches(Len(googleHotels))
        /\ Len(batchLog) = NumBatches(Len(googleHotels))
        /\ \A b \in DOMAIN batchLog : batchLog[b].start = (b - 1) * BATCH_SIZE
        /\ Len(enrichedHotels) = Len(googleHotels)
        /\ \A p \in DOMAIN googleHotels :
            IF LogOf(p).failed
            THEN \E e \in Range(enrichedHotels) :
                    /\ e.id = googleHotels[p].id
                    /\ e.available = FALSE
                    /\ e.price = null
                    /\ "error" \in DOMAIN e
                    /\ e.error = "Failed to fetch pricing"
            ELSE EnrichHotel(googleHotels[p], LogOf(p).results) \in Range(enrichedHotels)

\* C1 witness: the first batch failed, the second was still priced and its
\* hotel is returned available with a price.
C1_Witness ==
    /\ pc = "returned"
    /\ cached = null
    /\ Len(batchLog) = 2
    /\ batchLog[1].failed
    /\ ~batchLog[2].failed
    /\ \E e \in Range(response.hotels) : e.available /\ e.price.amount > 0
    /\ \E e \in Range(response.hotels) : "error" \in DOMAIN e

C3_MissWritesCache ==
    MissReturned =>
        /\ lastSetCache # null
        /\ lastSetCache.key = cacheKey(googleHotels, query)
        /\ lastSetCache.ttl = 1800
        /\ pc = "sort" => lastSetCache.value = enrichedHotels
        /\ lastSetCache.stored =>
              [key |-> cacheKey(googleHotels, query),
               value |-> JSONstringify(lastSetCache.value),
               ttl |-> 1800] \in cache

\* C3 witness: a list with a failed and a priced batch is in the store when
\* enrichHotelsWithPricing returns.
C3_Witness ==
    /\ pc = "sort"
    /\ cached = null
    /\ SomeBatchFailed
    /\ SomeBatchSucceeded
    /\ lastSetCache.stored
    /\ \E e \in cache : e.key = cacheKey(googleHotels, query) /\ e.ttl = 1800

\* the order of C4; priced[k] says whether the hotel at position k counts
\* as having a price
Ranked(hotels, priced) ==
    \A k, l \in DOMAIN hotels :
        k < l =>
            /\ hotels[k].available \/ ~hotels[l].available
            /\ hotels[k].available = hotels[l].available =>
                /\ priced[l] => priced[k]
                /\ (priced[k] /\ priced[l])
                      => hotels[k].price.amount <= hotels[l].price.amount
                /\ (~priced[k] /\ ~priced[l])
                      => hotels[k].rating >= hotels[l].rating

HasPrice(hotels) == [k \in DOMAIN hotels |-> hotels[k].price # null]
HasPositiveAmount(hotels) ==
    [k \in DOMAIN hotels |-> hotels[k].price # null /\ hotels[k].price.amount > 0]

\* C4 as claimed: in the returned list available hotels come first; among
\* hotels of equal availability those with a price come before those without,
\* priced ones are in non-decreasing amount and unpriced ones in
\* non-increasing rating.
C4_RankedByPrice ==
    pc = "returned" => Ranked(response.hotels, HasPrice(response.hotels))

\* C4 as amended: the same order, where a hotel counts as priced only if its
\* price amount is greater than 0; a hotel paired with a record of amount 0
\* ranks with the unpriced ones.
C4_RankedByPositiveAmount ==
    pc = "returned" => Ranked(response.hotels, HasPositiveAmount(response.hotels))

\* C4 witness: the returned list holds, in this order, an available hotel of
\* positive amount, an available hotel of amount 0 and an unavailable hotel.
C4_Witness ==
    /\ pc = "returned"
    /\ \E k, l, m \in DOMAIN response.hotels :
        /\ k < l /\ l < m
        /\ response.hotels[k].available /\ response.hotels[k].price.amount > 0
        /\ response.hotels[l].available /\ response.hotels[l].price.amount = 0
        /\ ~response.hotels[m].available

DedupKey(h) == <<toLowerCase(h.name), toLowerCase(h.address)>>

\* C6: no two entries of a returned list have the same dedup key
\* lowercase(name)_lowercase(address).
C6_NoDuplicateDedupKey ==
    pc = "returned" =>
        \A k, l \in DOMAIN response.hotels :
            k # l => DedupKey(response.hotels[k]) # DedupKey(response.hotels[l])

\* C7: a returned hotel is available exactly if the match engine paired a
\* pricing record with it; an unpaired hotel (no match, or failed batch) has
\* price null, a paired one has the price of the paired record.
C7_AvailableIffPaired ==
    /\ EnrichReturned =>
        \A e \in Range(enrichedHotels) :
            /\ e.available <=> "bookingId" \in DOMAIN e
            /\ e.available <=> e.price # null
    /\ MissAnswered =>
        \A p \in DOMAIN googleHotels :
            LET paired == IF LogOf(p).failed THEN null
                          ELSE findBestBookingMatch(googleHotels[p], LogOf(p).results)
            IN  \E e \in Range(enrichedHotels) :
                    /\ e.id = googleHotels[p].id
                    /\ e.available = (paired # null)
                    /\ paired = null => e.price = null
                    /\ paired # null => (e.price = paired.price /\ e.bookingId = paired.id)

\* C7 witness: one priced batch gave a hotel paired by score only and a hotel
\* left without a match.
C7_Witness ==
    /\ pc = "returned"
    /\ cached = null
    /\ ~SomeBatchFailed
    /\ \E e \in Range(response.hotels) :
          e.available /\ e.bookingId = Booking3.id /\ e.price = Booking3.price
    /\ \E e \in Range(response.hotels) :
          ~e.available /\ e.price = null /\ "error" \notin DOMAIN e

\* the store is as getCache of this request saw it
SinceLookup == pc \in {"batch", "delay", "setCache"} \/ HitReturned

KeyQuery(key) == [checkIn |-> key[2], checkOut |-> key[3], guests |-> key[4]]
KeyIds(key) == key[5]

\* C8 as claimed: the key is built from the sorted ids, so a request hits
\* the entry of an earlier request with the same dates and guests and the same
\* set of discovery ids, whatever their order.
C8_SameIdSetHits ==
    (SinceLookup /\ lookupOk
        /\ \E e \in cache :
            /\ KeyQuery(e.key) = query
            /\ Range(KeyIds(e.key)) = Range(HotelIds(googleHotels)))
    => cached # null

\* C8 as amended: the key is built from the ids in the order of the
\* discovery result; a request hits exactly the entry of a request with the
\* same dates and guests and the same sequence of ids, and gets its list.
C8_SameIdSequenceHits ==
    (SinceLookup /\ lookupOk) =>
        /\ cached # null <=>
              \E e \in cache :
                  /\ KeyQuery(e.key) = query
                  /\ KeyIds(e.key) = HotelIds(googleHotels)
        /\ cached # null =>
              \E e \in cache :
                  /\ KeyIds(e.key) = HotelIds(googleHotels)
                  /\ JSONparse(e.value) = cached.value

\* C8 witness: the store answers, holds the list of the same ids in another
\* order, and the request misses.
C8_Witness ==
    /\ SinceLookup
    /\ lookupOk
    /\ cached = null
    /\ \E e \in cache :
        /\ KeyQuery(e.key) = query
        /\ Range(KeyIds(e.key)) = Range(HotelIds(googleHotels))
        /\ KeyIds(e.key) # HotelIds(googleHotels)

\* C17: a request throws only when its discovery call failed: the error is
\* an APIError of provider 'google', no pricing call and no setCache call has
\* been made; once the discovery call has answered, the request returns,
\* whatever the pricing calls do.
C17_DiscoveryFailureFatal ==
    /\ pc = "thrown" =>
          /\ response = [error |-> "APIError", provider |-> "google"]
          /\ discoveryCalls = 1
          /\ googleHotels = <<>>
          /\ pricingCalls = 0
          /\ batchLog = <<>>
          /\ lastSetCache = null
    /\ SomeBatchFailed => pc \in {"batch", "delay", "setCache", "sort", "returned"}

\* C17 witness: the second request's discovery call failed while the store
\* holds the list of the first; the request threw.
C17_Witness ==
    /\ pc = "thrown"
    /\ requests = 2
    /\ cache # {}
    /\ response.provider = "google"

\* a request whose pricing calls all failed has returned
C17_AllPricingFailedReturned ==
    /\ pc = "returned"
    /\ Len(batchLog) = 2
    /\ \A b \in DOMAIN batchLog : batchLog[b].failed
    /\ response.metadata.unavailable = Len(googleHotels)

\* the list a request builds from its discovery result and from what its
\* pricing calls gave, batches 1..b
RECURSIVE MergedBatches(_)
MergedBatches(b) ==
    IF b = 0 THEN <<>>
    ELSE LET batch == slice(googleHotels, batchLog[b].start, batchLog[b].start + BATCH_SIZE)
         IN  MergedBatches(b - 1) \o
                (IF batchLog[b].failed THEN FailedBatch(batch)
                 ELSE EnrichBatch(batch, batchLog[b].results))

\* what a request returns when it reads nothing from the store
MissResult == SearchResult(StableSort("hotels", MergedBatches(Len(batchLog))))

\* C18: a store that is not connected or whose command fails never makes
\* the request throw; getCache then gives a miss, setCache stores nothing, and
\* the request returns what the same discovery and pricing answers give
\* against an empty cache.
C18_StoreFailureIsMiss ==
    /\ (pc \in {"batch", "delay", "setCache", "sort", "returned"} /\ ~lookupOk)
          => cached = null
    /\ (lastSetCache # null /\ ~lastSetCache.stored /\ ~lookupOk /\ requests = 1)
          => cache = {}
    /\ (pc = "returned" /\ cached = null) => response = MissResult
    /\ pc = "thrown" => response.provider = "google"

\* C18 witness: the store holds the list of the request's key but neither
\* the request's getCache nor its setCache reached it; the request returned
\* a priced hotel.
C18_Witness ==
    /\ pc = "returned"
    /\ ~lookupOk
    /\ ~lastSetCache.stored
    /\ \E e \in cache : e.key = cacheKey(googleHotels, query)
    /\ response.metadata.withPricing > 0
    /\ response = MissResult

\* the same answers against an empty cache that the store keeps empty
C18_WitnessEmptyCache ==
    /\ pc = "returned"
    /\ lookupOk
    /\ requests = 1
    /\ cache = {}
    /\ response.metadata.withPricing > 0
    /\ response = MissResult

(***************************************************************************)
(* Properties of the retried operations, checked under RetrySpec.          *)
(***************************************************************************)
Http429 == HttpResponse(429, "")

\* the response lets the operation return a result
Success(resp) == ResponseOk(resp) /\ (rImpl = "pricing" \/ resp.status = "OK")

\* a 4xx status other than 429
ClientError(resp) ==
    resp.kind = "http" /\ resp.http >= 400 /\ resp.http <= 499 /\ resp.http # 429

\* the operation has ended with the call that got response number k
EndedAt(k) == k = Len(rResponses) /\ rPc \in {"returned", "thrown"}

C12_WitnessPricing ==
    /\ rImpl = "pricing"
    /\ rPc = "returned"
    /\ rResponses = <<Http429, Http429, HttpResponse(200, "")>>
    /\ rOutcome = Returned(3)

C12_WitnessReviews ==
    /\ rImpl = "reviews"
    /\ rPc = "returned"
    /\ rResponses = <<Http429, Http429, HttpResponse(200, "OK")>>
    /\ rOutcome = Returned(3)

\* C13: one retried operation makes at most 3 calls to its provider.
C13_AtMostThreeCalls == Len(rResponses) <= 3

\* what holds instead: the two Google loops make at most maxRetries calls,
\* makeBookingAPIRequest at most MAX_RETRIES + 1
C13_CallsPerImplementation ==
    /\ rImpl \in {"geocoding", "reviews"} => Len(rResponses) <= maxRetries
    /\ rImpl = "pricing" => Len(rResponses) <= MAX_RETRIES + 1

\* a pricing operation has made four calls
C13_FourCallsReached == rImpl = "pricing" /\ Len(rResponses) = 4

\* C14: the error an operation throws is the error raised by its last call.
C14_ThrowsLastError ==
    rPc = "thrown" => rOutcome.at = Len(rResponses)

\* the reviews loop throws the error of its first call after two later 429s
C14_StaleErrorReached ==
    /\ rImpl = "reviews"
    /\ rPc = "thrown"
    /\ rResponses = <<HttpResponse(500, ""), Http429, Http429>>
    /\ rOutcome = ReviewError("Google API HTTP", 500, 1)

\* C15: a response with a 4xx status other than 429 ends the operation with
\* a throw: no further call is made.
C15_ClientErrorNotRetried ==
    \A k \in DOMAIN rResponses :
        ClientError(rResponses[k]) => (EndedAt(k) /\ rPc = "thrown")

\* the reviews loop made three calls, each answered with HTTP 404
C15_RetriedClientErrorReached ==
    /\ rImpl = "reviews"
    /\ rResponses = <<HttpResponse(404, ""), HttpResponse(404, ""), HttpResponse(404, "")>>

\* a quota failure, as the HTTP status or as the status of the body
QuotaFailure(resp) ==
    resp = Http429 \/ resp = HttpResponse(200, "OVER_QUERY_LIMIT")

\* an access-denied failure, as the HTTP status or as the status of the body
AccessDenied(resp) ==
    resp = HttpResponse(403, "") \/ resp = HttpResponse(200, "REQUEST_DENIED")

\* C16: in the geocoding loop a quota failure does not end the operation
\* while calls are left, and an access-denied failure ends it at once with a
\* GeocodingError of status 403.
C16_QuotaRetriedDeniedFatal ==
    rImpl = "geocoding" =>
        \A k \in DOMAIN rResponses :
            /\ (QuotaFailure(rResponses[k]) /\ k < maxRetries) => ~EndedAt(k)
            /\ AccessDenied(rResponses[k]) =>
                  /\ EndedAt(k)
                  /\ rPc = "thrown"
                  /\ rOutcome.name = "GeocodingError"
                  /\ rOutcome.status = 403

\* the geocoding loop threw a GeocodingError of status 429 after one call
C16_QuotaSurfacedAtOnce ==
    /\ rImpl = "geocoding"
    /\ rPc = "thrown"
    /\ rResponses = <<HttpResponse(200, "OVER_QUERY_LIMIT")>>
    /\ rOutcome = GeocodingError("Google Geocoding quota exceeded", 429, 1)

(***************************************************************************)
(* Properties of setCache, getCache and deleteCache, checked under         *)
(* CacheSpec.  sResult is the command that has just run; written holds,    *)
(* per key, the last write the store accepted and that no accepted delete  *)
(* removed.                                                                *)
(***************************************************************************)
JustRead == sResult # null /\ sResult.op = "get" /\ sResult.ok

LastWrite(key) == CHOOSE w \in written : w.key = key

Elapsed(w) == now - w.at

\* C19: with the store available, getCache(k) after setCache(k, v, t) gives v
\* as long as at most t seconds have elapsed and no other write or delete of
\* k was accepted, and gives a miss once more than t seconds have elapsed.
C19_ReadAfterWrite ==
    JustRead =>
        IF \E w \in written : w.key = sResult.key
        THEN /\ Elapsed(LastWrite(sResult.key)) <= LastWrite(sResult.key).ttl
                  => sResult.value = [value |-> LastWrite(sResult.key).value]
             /\ Elapsed(LastWrite(sResult.key)) > LastWrite(sResult.key).ttl
                  => sResult.value = null
        ELSE sResult.value = null

\* a falsy value is read back in the last second of its time to live
C19_Witness ==
    /\ JustRead
    /\ \E w \in written : /\ w.key = sResult.key
                          /\ w.value = 0
                          /\ w.ttl = 2
                          /\ Elapsed(w) = w.ttl
                          /\ sResult.value = [value |-> 0]

\* a read one second after the time to live ran out is a miss
C19_WitnessExpired ==
    /\ JustRead
    /\ \E w \in written : /\ w.key = sResult.key
                          /\ Elapsed(w) = w.ttl + 1
                          /\ sResult.value = null

\* C18, command by command: a command that finds the store unavailable
\* answers null (getCache) or false (setCache, deleteCache)
C18_CommandsSoftFail ==
    (sResult # null /\ ~sResult.ok) =>
        IF sResult.op = "get" THEN sResult.value = null ELSE sResult.value = FALSE

\* ... and leaves the store as it was
C18_FailedCommandKeepsStore ==
    [][(sResult' # null /\ ~sResult'.ok) => (cache' = cache /\ expireAt' = expireAt)]_vars

C18_FailedCommandReached ==
    /\ sResult # null
    /\ ~sResult.ok
    /\ sResult.op = "delete"
    /\ cache # {}

(***************************************************************************)
(* Properties of geocodeLocation, checked under GeoSpec.  The call under   *)
(* way, or just finished, is the later call; gHistory holds the calls that *)
(* returned a coordinate.                                                  *)
(***************************************************************************)
\* the call has passed its lookup: it is about to call the provider, about
\* to store, or has finished
PastLookup ==
    \/ gPc \in {"provider", "store"}
    \/ gPc = "idle" /\ gOutcome # null
                    /\ ("result" \in DOMAIN gOutcome \/ gCalls > 0)

ReturnedCoordinate ==
    /\ gPc = "idle"
    /\ gOutcome # null
    /\ "result" \in DOMAIN gOutcome
    /\ gOutcome.result # null

\* the calls before the one under way
EarlierCalls ==
    IF ReturnedCoordinate THEN 1..(Len(gHistory) - 1) ELSE 1..Len(gHistory)

\* t' equals t up to letter case and surrounding whitespace
SameText(h) ==
    toLowerCase(trim(h.location)) = toLowerCase(trim(location))

WithinDay(h) == now - h.at <= 86400

\* the later call gives the value of h and does not call the provider
ServedFrom(h) ==
    /\ gPc \notin {"provider", "store"}
    /\ gCalls = 0
    /\ gOutcome = Returned(h.value)

\* C20 as stated: after a call that returned a coordinate, a later call for
\* the same text within 24 h, with the store available, returns the same
\* value without calling the provider.
C20_CachedWithinDay ==
    PastLookup =>
        \A n \in EarlierCalls :
            (SameText(gHistory[n]) /\ WithinDay(gHistory[n]) /\ gLookupOk)
                => ServedFrom(gHistory[n])

\* h fetched its coordinate from the provider, the store took its write, and
\* no later call wrote a coordinate for the text
LastStored(n) ==
    /\ gHistory[n].fetched
    /\ gHistory[n].stored
    /\ \A j \in EarlierCalls :
          (j > n /\ SameText(gHistory[j])) => ~gHistory[j].stored

\* C20: after a geocodeLocation(t) that fetched a coordinate from the
\* provider and whose write the store accepted, a later geocodeLocation(t')
\* at most 24 h after that call, with the store available for its lookup, t'
\* equal to t up to letter case and surrounding whitespace, and no call for
\* the text having stored a coordinate in between, returns the same value
\* without calling the provider.
C20_CachedWithinDayOfStore ==
    PastLookup =>
        \A n \in EarlierCalls :
            (SameText(gHistory[n]) /\ LastStored(n) /\ WithinDay(gHistory[n])
                /\ gLookupOk)
                => ServedFrom(gHistory[n])

\* a text of other case and whitespace is served from the entry in the last
\* second of its 24 h
C20_Witness ==
    /\ ReturnedCoordinate
    /\ gCalls = 0
    /\ \E n \in EarlierCalls :
          /\ gHistory[n].location # location
          /\ SameText(gHistory[n])
          /\ LastStored(n)
          /\ now - gHistory[n].at = 86400
          /\ gOutcome = Returned(gHistory[n].value)

\* the earlier call was itself served from the cache, and the entry ran out
\* less than 24 h after it: the provider is called
C20_HitDoesNotRenew ==
    /\ gPc = "provider"
    /\ gLookupOk
    /\ \E n \in EarlierCalls :
          /\ SameText(gHistory[n])
          /\ ~gHistory[n].fetched
          /\ WithinDay(gHistory[n])

\* the argument is not a string, or a string of fewer than two characters
\* once trimmed
BadArgument == gTypeof # "string" \/ Len(trim(location)) < 2

\* C21: geocodeLocation called with a non-string, or a string whose trimmed
\* length is below 2, throws a GeocodingError with status 400 before any
\* cache read, provider call or metrics update.
C21_BadArgumentRejectedFirst ==
    [][(gRequests' = gRequests + 1 /\ BadArgument')
          => /\ gOutcome' = GeocodingError("Invalid location provided", 400, 0)
             /\ gPc' = "idle"
             /\ gCalls' = 0
             /\ gLookupOk' = FALSE
             /\ UNCHANGED <<cache, expireAt, apiMetrics, systemMetrics, metricsCache>>]_vars

\* an array is rejected after a call that reached the provider and the store
C21_Witness ==
    /\ gPc = "idle"
    /\ gTypeof = "object"
    /\ gOutcome = GeocodingError("Invalid location provided", 400, 0)
    /\ apiMetrics["google_geocoding"].requests = 1
    /\ cache # {}

\* a text of one character between blanks is rejected
C21_WitnessShortText ==
    /\ gPc = "idle"
    /\ gTypeof = "string"
    /\ Len(location) = 3
    /\ gOutcome = GeocodingError("Invalid location provided", 400, 0)

\* C22 (geocodeLocation): when the provider answers that the location has
\* zero results, the call returns null, throws no error, and the metrics
\* record the provider call as a success.
C22_ZeroResultsIsSuccess ==
    [][(gPc = "provider" /\ gAnswer' = Returned(null))
          => /\ gOutcome' = Returned(null)
             /\ gPc' = "idle"
             /\ apiMetrics'["google_geocoding"].requests
                    = apiMetrics["google_geocoding"].requests + 1
             /\ apiMetrics'["google_geocoding"].errors
                    = apiMetrics["google_geocoding"].errors
             /\ apiMetrics'["google_geocoding"].lastSuccess = [timestamp |-> now]
             /\ apiMetrics'["google_geocoding"].lastError
                    = apiMetrics["google_geocoding"].lastError
             /\ systemMetrics'.totalRequests = systemMetrics.totalRequests + 1
             /\ systemMetrics'.totalErrors = systemMetrics.totalErrors]_vars

\* a call without result after a call that failed
C22_Witness ==
    /\ gPc = "idle"
    /\ gAnswer = Returned(null)
    /\ gOutcome = Returned(null)
    /\ apiMetrics["google_geocoding"].requests = 2
    /\ apiMetrics["google_geocoding"].errors = 1

\* C22 (reverseGeocode), checked under ReverseSpec: zero results give null,
\* no error, and a success in the metrics
C22_ReverseZeroResultsIsSuccess ==
    [][(gPc = "provider" /\ gAnswer' = Returned(null))
          => /\ gOutcome' = Returned(null)
             /\ gPc' = "idle"
             /\ apiMetrics'["google_reverse_geocoding"].requests
                    = apiMetrics["google_reverse_geocoding"].requests + 1
             /\ apiMetrics'["google_reverse_geocoding"].errors
                    = apiMetrics["google_reverse_geocoding"].errors
             /\ apiMetrics'["google_reverse_geocoding"].lastSuccess = [timestamp |-> now]
             /\ systemMetrics'.totalErrors = systemMetrics.totalErrors]_vars

C22_ReverseZeroResultsReached ==
    /\ gPc = "idle"
    /\ gAnswer = Returned(null)
    /\ gOutcome = Returned(null)
    /\ apiMetrics["google_reverse_geocoding"].requests = 2
    /\ apiMetrics["google_reverse_geocoding"].errors = 1

(***************************************************************************)
(* Properties of metricsService, checked under MetricsSpec.                *)
(***************************************************************************)
Window(p) == IF p \in DOMAIN metricsCache THEN metricsCache[p] ELSE <<>>

\* the recent average latency of p exceeds 10 s
SlowLately(p) == Len(Window(p)) > 0 /\ Sum(Window(p)) > 10000 * Len(Window(p))

\* errors / requests exceeds percent %
ErrorRateAbove(p, percent) ==
    apiMetrics[p].errors * 100 > percent * apiMetrics[p].requests

\* C23: getAPIHealthStatus reports for each provider: unknown when it has 0
\* requests; otherwise critical when its error rate exceeds 50%; otherwise
\* degraded when its error rate exceeds 20% or its recent average latency
\* exceeds 10 s; otherwise healthy.
C23_HealthByErrorRateAndLatency ==
    health # null =>
        \A p \in DOMAIN health :
            health[p].status =
                IF apiMetrics[p].requests = 0 THEN "unknown"
                ELSE IF ErrorRateAbove(p, 50) THEN "critical"
                ELSE IF ErrorRateAbove(p, 20) \/ SlowLately(p) THEN "degraded"
                ELSE "healthy"

\* what the code reports: the error rate plays no part
C23_HealthByLatencyOnly ==
    health # null =>
        \A p \in DOMAIN health :
            health[p].status =
                IF apiMetrics[p].requests = 0 THEN "unknown"
                ELSE IF SlowLately(p) THEN "degraded"
                ELSE "healthy"

\* a provider all of whose calls failed is reported healthy, error rate 100
C23_AllFailedReportedHealthy ==
    /\ health # null
    /\ \E p \in DOMAIN health :
          /\ apiMetrics[p].requests = 2
          /\ apiMetrics[p].errors = 2
          /\ health[p].status = "healthy"
          /\ health[p].errorRate = 100

\* C24: every call to an external provider is made inside a bounded retry
\* loop and is reported to the metrics recorder under that provider's name.
C24_CallsRetriedAndTracked ==
    \A k \in DOMAIN calls :
        /\ calls[k].loop
        /\ calls[k].track = "wrapped"
        /\ calls[k].provider \in DOMAIN apiMetrics
        /\ apiMetrics[calls[k].provider].requests >= 1

\* the discovery call of searchHotels has been made and has failed: no
\* entry of the metrics has changed
C24_DiscoveryUntracked ==
    /\ Len(calls) = 1
    /\ calls[1].site = "searchHotels"
    /\ calls[1].state = "failed"
    /\ "google" \notin DOMAIN apiMetrics
    /\ systemMetrics.totalRequests = 0

\* a pricing call that returned is counted as a failed request
C24_PricingCountedAsError ==
    /\ Len(calls) = 1
    /\ calls[1].site = "searchHotelsWithPricing"
    /\ calls[1].state = "ok"
    /\ apiMetrics["booking"].requests = 1
    /\ apiMetrics["booking"].errors = 1

\* the trackAPICall invocations for p, and those whose apiCall() failed.
\* Given a string, apiCall() fails at once.
Invocations(p) ==
    {k \in DOMAIN calls : calls[k].provider = p /\ calls[k].track # "none"}

FailedInvocations(p) ==
    {k \in Invocations(p) : calls[k].track = "beside" \/ calls[k].state = "failed"}

AllCompleted == \A k \in DOMAIN calls : calls[k].state # "running"

RECURSIVE SumOver(_, _)
SumOver(providers, field) ==
    IF providers = {} THEN 0
    ELSE LET p == CHOOSE q \in providers : TRUE
         IN  apiMetrics[p][field] + SumOver(providers \ {p}, field)

\* C25: under any interleaving of concurrent trackAPICall invocations, once
\* all have completed a provider's requests counter equals the number of
\* invocations for it, its errors counter the number of them whose call
\* failed, and the system totals equal the sums over the providers.
C25_NoLostUpdate ==
    AllCompleted =>
        /\ \A p \in DOMAIN apiMetrics :
              /\ apiMetrics[p].requests = Cardinality(Invocations(p))
              /\ apiMetrics[p].errors = Cardinality(FailedInvocations(p))
        /\ \A k \in DOMAIN calls :
              calls[k].track # "none" => calls[k].provider \in DOMAIN apiMetrics
        /\ systemMetrics.totalRequests = SumOver(DOMAIN apiMetrics, "requests")
        /\ systemMetrics.totalErrors = SumOver(DOMAIN apiMetrics, "errors")

\* three invocations for two providers were in flight together and
\* completed in an order other than that of their start, one failing
C25_Witness ==
    /\ AllCompleted
    /\ Len(calls) = 3
    /\ \A k \in DOMAIN calls : calls[k].track = "wrapped"
    /\ calls[1].provider = calls[3].provider
    /\ calls[1].provider # calls[2].provider
    /\ calls[3].order = 1
    /\ calls[1].order = 3
    /\ calls[1].state = "failed"
    /\ calls[2].state = "ok"

\* the response times recorded for p, in recording order, as far as the
\* calls of this run go
RECURSIVE RecordedUpTo(_, _)
RecordedUpTo(p, n) ==
    IF n = 0 THEN <<>>
    ELSE LET done == {k \in DOMAIN calls : calls[k].order = n}
             k == CHOOSE j \in done : TRUE
         IN  IF done # {} /\ calls[k].provider = p /\ calls[k].track = "wrapped"
                /\ calls[k].state = "ok"
             THEN Append(RecordedUpTo(p, n - 1), calls[k].elapsed)
             ELSE RecordedUpTo(p, n - 1)

Recorded(p) == RecordedUpTo(p, Len(calls))

LastOf(seq, n) == SubSeq(seq, Len(seq) - n + 1, Len(seq))

\* C26: the window of recent latencies of a provider never holds more than
\* WindowLimit (100 in the source) entries, and when full it holds the
\* latencies of the WindowLimit most recently recorded calls in recording
\* order.
C26_WindowIsLastRecorded ==
    \A p \in DOMAIN metricsCache :
        /\ Len(metricsCache[p]) <= WindowLimit
        /\ Len(metricsCache[p]) = WindowLimit
              => /\ Len(Recorded(p)) >= WindowLimit
                 /\ metricsCache[p] = LastOf(Recorded(p), WindowLimit)

\* more calls than the window holds were recorded: the oldest is gone
C26_Witness ==
    \E p \in DOMAIN metricsCache :
        /\ Len(Recorded(p)) = WindowLimit + 1
        /\ Len(metricsCache[p]) = WindowLimit
        /\ Recorded(p)[1] # Recorded(p)[2]
        /\ metricsCache[p] = Tail(Recorded(p))

(***************************************************************************)
(* Properties of the batch loop, checked under BatchSpec.                  *)
(***************************************************************************)
\* the positions (1-based) of the hotels of pricing call k
BatchOf(k) == (calls[k].from + 1)..(calls[k].from + calls[k].size)

LoopDone == pc \in {"setCache", "sort", "returned"} /\ cached = null /\ lookupOk

\* C27: within one request the pricing calls of successive batches never
\* overlap: the call for the next batch starts only after the call before it
\* has completed or failed and the 1000 ms delay has elapsed; each discovery
\* hotel belongs to exactly one batch of at most BATCH_SIZE; no delay
\* follows the last batch.
C27_BatchesSequential ==
    /\ \A k \in DOMAIN calls :
          /\ calls[k].size >= 1
          /\ calls[k].size <= BATCH_SIZE
          /\ k < Len(calls) =>
                /\ calls[k].state # "running"
                /\ calls[k + 1].start >= calls[k].end + 1000
          /\ \A l \in DOMAIN calls : k # l => BatchOf(k) \cap BatchOf(l) = {}
    /\ pc = "delay" => i + BATCH_SIZE < Len(googleHotels)
    /\ pc = "setCache" /\ calls # <<>> => now = calls[Len(calls)].end
    /\ LoopDone =>
          /\ \A n \in DOMAIN googleHotels : \E k \in DOMAIN calls : n \in BatchOf(k)
          /\ Len(calls) = NumBatches(Len(googleHotels))

\* three batches, the last one shorter, the first call failed and slow, and
\* the loop has ended
C27_Witness ==
    /\ pc = "setCache"
    /\ Len(googleHotels) = 2 * BATCH_SIZE + 1
    /\ Len(calls) = 3
    /\ calls[1].state = "failed"
    /\ calls[1].end - calls[1].start = 1500
    /\ calls[2].state = "ok"
    /\ calls[3].size = 1
    /\ calls[3].start = calls[2].end + 1007

(***************************************************************************)
(* Properties of concurrent requests, checked under RaceSpec.              *)
(***************************************************************************)
\* the requests that missed and whose setCache stored its list
Writers == {r \in DOMAIN calls : ~calls[r].hit /\ calls[r].wrote # <<>>}

\* C28: when two concurrent requests miss on the same hotel-pricing key and
\* both write it, the two written values are equal, so the cache content
\* after both writes does not depend on which write comes last.
C28_ConcurrentWritesEqual ==
    \A r1, r2 \in Writers : calls[r1].wrote = calls[r2].wrote

\* writers whose pricing calls gave the same answers wrote the same value
C28_SameAnswersSameValue ==
    \A r1, r2 \in Writers :
        calls[r1].answers = calls[r2].answers => calls[r1].wrote = calls[r2].wrote

\* request 1 wrote a priced list, then request 2, whose pricing call had
\* failed, replaced it with a list of unavailable hotels
C28_FailedListWrittenLast ==
    /\ Writers = {1, 2}
    /\ \E k \in DOMAIN calls[1].wrote[1] : calls[1].wrote[1][k].available
    /\ \A k \in DOMAIN calls[2].wrote[1] : ~calls[2].wrote[1][k].available
    /\ getCache(cache, cacheKey(googleHotels, query), TRUE).value = calls[2].wrote[1]

(***************************************************************************)
(* Properties of calculateStringSimilarity, checked under SimilaritySpec.  *)
(***************************************************************************)
\* C29: for every string s, calculateStringSimilarity(s, s) equals 1.0,
\* the empty string included, and for all strings s, t
\* calculateStringSimilarity(s, t) equals calculateStringSimilarity(t, s).
C29_ReflexiveAndSymmetric ==
    /\ mPc = "return" /\ mGoogle = mBooking => StrictEquals(mResult.value, SimScale)
    /\ mPc = "swapped" => StrictEquals(mResult.value, mPrev.value)

\* the same with at least one string non-empty
C29_ReflexiveAndSymmetricNonEmpty ==
    mGoogle # <<>> \/ mBooking # <<>> =>
        /\ mPc = "return" /\ mGoogle = mBooking => StrictEquals(mResult.value, SimScale)
        /\ mPc = "swapped" => StrictEquals(mResult.value, mPrev.value)

\* two empty strings give NaN
C29_EmptyStringsGiveNaN ==
    /\ mPc = "return"
    /\ mGoogle = <<>>
    /\ mBooking = <<>>
    /\ mResult.value = NaN

\* two different strings of different lengths, compared in both orders
C29_SymmetricReached ==
    /\ mPc = "swapped"
    /\ Len(mGoogle) = 1
    /\ Len(mBooking) = 3
    /\ mResult.value = mPrev.value
    /\ mResult.value = SimScale \div 3

(***************************************************************************)
(* The Grand Plaza scenario, checked under MatchSpec.                      *)
(***************************************************************************)
\* value / scale is h / 100 to within 0.01
About(value, scale, h) == Abs(100 * value - h * scale) <= scale

\* findBestBookingMatch was called on "Grand Plaza" and the one pricing
\* record "The Grand Plaza Hotel"
GrandPlazaCase ==
    /\ mPc # "call"
    /\ mGoogle = GrandPlaza
    /\ mBooking = <<TheGrandPlazaHotel>>

GrandPlazaNameSimilarity ==
    calculateStringSimilarity(toLowerCase(mGoogle.name), toLowerCase(mBooking[1].name))

\* C30 as stated: for "Grand Plaza" (4.5) and "The Grand Plaza Hotel" (4.6)
\* about 14 m away the name similarity of the lowercased names is about
\* 0.74, the total score about 0.85, and the pricing record is accepted.
C30_GrandPlazaScenario ==
    GrandPlazaCase =>
        /\ About(GrandPlazaNameSimilarity, SimScale, 74)
        /\ About(calculateMatchScore(mGoogle, mBooking[1]), ScoreScale, 85)
        /\ mResult = mBooking[1]

\* C30 amended: the name similarity is about 0.52 (1 - 10/21), the total
\* score about 0.75, and the pricing record is accepted.
C30_GrandPlazaAccepted ==
    GrandPlazaCase =>
        /\ About(GrandPlazaNameSimilarity, SimScale, 52)
        /\ About(calculateMatchScore(mGoogle, mBooking[1]), ScoreScale, 75)
        /\ calculateMatchScore(mGoogle, mBooking[1]) > MatchThreshold
        /\ mResult = mBooking[1]

\* the scenario: the names differ, the records are 14 m apart
C30_Witness ==
    /\ GrandPlazaCase
    /\ mPc = "return"
    /\ toLowerCase(mGoogle.name) # toLowerCase(mBooking[1].name)
    /\ calculateDistance(mGoogle.latitude, mGoogle.longitude,
                         mBooking[1].latitude, mBooking[1].longitude) = 14
    /\ mResult = TheGrandPlazaHotel

(***************************************************************************)
(* Far candidates, checked under MatchSpec.                                *)
(***************************************************************************)
DistanceTo(k) ==
    calculateDistance(mGoogle.latitude, mGoogle.longitude,
                      mBooking[k].latitude, mBooking[k].longitude)

\* candidate k is 500 m or more away and its name is not the discovery name
FarAndOtherName(k) ==
    DistanceTo(k) >= 500 /\ ~SameNameIgnoringCase(mGoogle, mBooking[k])

\* the name and rating parts of the score of candidate k
ScoreWithoutDistance(k) ==
    calculateMatchScore([mGoogle EXCEPT !.latitude = mBooking[k].latitude,
                                        !.longitude = mBooking[k].longitude],
                        mBooking[k]) - 500 * 1512

\* C31: a pricing candidate at 500 m or more gets distance score 0 and,
\* unless its lowercased name is the discovery name, has a total score of at
\* most 0.7 and is never paired; when no other candidate qualifies the hotel
\* is emitted with available = false.
C31_FarCandidateNotPaired ==
    mPc # "call" =>
        /\ \A k \in DOMAIN mBooking :
              FarAndOtherName(k) =>
                 /\ calculateMatchScore(mGoogle, mBooking[k]) = ScoreWithoutDistance(k)
                 /\ calculateMatchScore(mGoogle, mBooking[k]) <= MatchThreshold
                 /\ mResult # mBooking[k]
        /\ (mBooking # <<>> /\ \A k \in DOMAIN mBooking : FarAndOtherName(k)) =>
                 /\ mResult = null
                 /\ ~EnrichHotel(mGoogle, mBooking).available
                 /\ EnrichHotel(mGoogle, mBooking).price = null

\* a candidate exactly 500 m away with a near name and the same rating,
\* next to a near candidate that is paired
C31_Witness ==
    /\ mPc = "return"
    /\ Len(mBooking) = 2
    /\ FarAndOtherName(1)
    /\ DistanceTo(1) = 500
    /\ mBooking[1].rating = mGoogle.rating
    /\ mGoogle.rating # 0
    /\ toLowerCase(mBooking[1].name) = NameAbcdf
    /\ DistanceTo(2) < 500
    /\ mResult = mBooking[2]

\* the scenario of the record 2000 m away with another name: not paired
C31_FarHotelUnavailable ==
    /\ mPc = "return"
    /\ mGoogle = GrandPlaza
    /\ mBooking = <<FarHotel>>
    /\ DistanceTo(1) >= 2000
    /\ mResult = null
    /\ ~EnrichHotel(mGoogle, mBooking).available

\* the calls of the pricing provider
PricingCalls == {k \in DOMAIN calls : calls[k].provider = "booking"}

\* C32: a pricing call that succeeds adds one to the requests of 'booking'
\* and nothing to its errors; the errors of 'booking' grow only when the
\* pricing call itself fails, and recording the call raises no error.
C32_PricingCallsCounted ==
    /\ apiMetrics["booking"].requests = Cardinality(PricingCalls)
    /\ apiMetrics["booking"].errors
          = Cardinality({k \in PricingCalls : calls[k].state = "failed"})
    /\ apiMetrics["booking"].lastError # null
          => apiMetrics["booking"].lastError.message = "provider call failed"

\* what the code does: every pricing call is an error as soon as it starts
C32_EveryPricingCallAnError ==
    /\ apiMetrics["booking"].requests = Cardinality(PricingCalls)
    /\ apiMetrics["booking"].errors = Cardinality(PricingCalls)
    /\ "booking" \notin DOMAIN metricsCache

\* two pricing calls returned; both are counted as errors, the error being
\* that of trackAPICall calling a string
C32_SucceededCountedFailed ==
    /\ Cardinality(PricingCalls) = 2
    /\ \A k \in PricingCalls : calls[k].state = "ok"
    /\ apiMetrics["booking"].errors = 2
    /\ apiMetrics["booking"].lastError.message = "apiCall is not a function"
    /\ apiMetrics["booking"].lastSuccess = null

(***************************************************************************)
(* Properties of resetMetrics, checked under ResetSpec.                    *)
(***************************************************************************)
\* C33: in every reachable state and for every provider errors <= requests,
\* and totalErrors <= totalRequests, under any interleaving of trackAPICall
\* invocations in flight with resetMetrics.
C33_ErrorsWithinRequests ==
    /\ \A p \in DOMAIN apiMetrics : apiMetrics[p].errors <= apiMetrics[p].requests
    /\ systemMetrics.totalErrors <= systemMetrics.totalRequests

\* a call was in flight over a reset and then failed
C33_ErrorWithoutRequest ==
    /\ Len(calls) = 1
    /\ calls[1].site = "geocodeLocation"
    /\ calls[1].state = "failed"
    /\ apiMetrics["google_geocoding"].requests = 0
    /\ apiMetrics["google_geocoding"].errors = 1
    /\ systemMetrics.totalRequests = 0
    /\ systemMetrics.totalErrors = 1

(***************************************************************************)
(* Properties of the validation of searchHotels, checked under             *)
(* ValidationSpec.                                                         *)
(***************************************************************************)
SearchCalled == requests > 0

Rejected(message) ==
    /\ pc = "thrown"
    /\ "message" \in DOMAIN response
    /\ response.message = message
    /\ discoveryCalls = 0
    /\ lookupOk = FALSE
    /\ cache = {}

\* the coordinates are numbers in range
CoordinatesInRange ==
    /\ query.latitude.typeof = "number"
    /\ query.longitude.typeof = "number"
    /\ query.latitude.value >= 0 - 90 /\ query.latitude.value <= 90
    /\ query.longitude.value >= 0 - 180 /\ query.longitude.value <= 180

\* the coordinates and the dates pass their tests
ReachesGuestTest ==
    /\ ~(Falsy(query.latitude) \/ Falsy(query.longitude))
    /\ ~(isNaN(query.latitude) \/ isNaN(query.longitude))
    /\ ~(Falsy(query.checkIn) \/ Falsy(query.checkOut))

GuestsOutOfRange ==
    query.guests.typeof = "number"
        /\ (query.guests.value < 1 \/ query.guests.value > 10)

\* C34: searchHotels rejects every guest count outside 1..10, 0 included,
\* with 'Guest count must be between 1 and 10' before any provider call or
\* cache access, and never replaces an out-of-range count by another value.
C34_GuestCountRejectedOutOfRange ==
    (SearchCalled /\ ReachesGuestTest /\ GuestsOutOfRange) =>
        Rejected("Guest count must be between 1 and 10")

\* the same for the counts that are not 0
C34_NonZeroCountRejectedOutOfRange ==
    (SearchCalled /\ ReachesGuestTest /\ GuestsOutOfRange /\ query.guests.value # 0) =>
        Rejected("Guest count must be between 1 and 10")

\* guests = 0 is searched as 2 guests
C34_ZeroGuestsSearchedAsTwo ==
    /\ SearchCalled
    /\ ReachesGuestTest
    /\ query.guests.typeof = "number"
    /\ query.guests.value = 0
    /\ query.guestCount = 2
    /\ pc = "getCache"
    /\ discoveryCalls = 1

\* C35: searchHotels accepts every coordinate with latitude in [-90, 90]
\* and longitude in [-180, 180], latitude 0 and longitude 0 included: it
\* does not fail with 'Invalid coordinates provided'.
C35_CoordinatesInRangeAccepted ==
    (SearchCalled /\ CoordinatesInRange) =>
        ~(pc = "thrown" /\ "message" \in DOMAIN response
            /\ response.message = "Invalid coordinates provided")

\* the same off the equator and off the prime meridian
C35_NonZeroCoordinatesAccepted ==
    (SearchCalled /\ CoordinatesInRange /\ query.latitude.value # 0
        /\ query.longitude.value # 0) =>
        ~(pc = "thrown" /\ "message" \in DOMAIN response
            /\ response.message = "Invalid coordinates provided")

\* a point on the equator is rejected
C35_EquatorRejected ==
    /\ SearchCalled
    /\ CoordinatesInRange
    /\ query.latitude.value = 0
    /\ query.longitude.value = 0 - 74
    /\ Rejected("Invalid coordinates provided")

\* C35 (reverseGeocode), checked under ReverseSpec: numbers other than 0
\* are not rejected as invalid coordinates, 0 is
C35_ReverseZeroRejected ==
    (gRequests > 0 /\ location.lat.typeof = "number" /\ location.lng.typeof = "number") =>
        ((gOutcome # null /\ "message" \in DOMAIN gOutcome
            /\ gOutcome.message = "Invalid coordinates provided")
         <=> (gPc = "idle" /\ gCalls = 0 /\ gCached = null
                /\ (location.lat.value = 0 \/ location.lng.value = 0)))

(***************************************************************************)
(* The cache is written only for a result of the provider, checked under   *)
(* GeoSpec (geocodeLocation) and ReverseSpec (reverseGeocode).             *)
(***************************************************************************)

\* the step writes an entry: one that was not in the store before it
WritesEntry == cache' \ cache # {}

\* the provider call of the call under way returned the coordinate that the
\* call is about to store
ProviderGaveCoordinate ==
    /\ gPc = "store"
    /\ gCalls > 0
    /\ "result" \in DOMAIN gAnswer
    /\ gAnswer.result # null
    /\ result = gAnswer.result

\* some provider call for the text of entry e returned the coordinate that e
\* holds
FetchedFor(e) ==
    \E n \in 1..Len(gHistory) :
        /\ gHistory[n].fetched
        /\ gHistory[n].value # null
        /\ GeocodeKey(gHistory[n].location) = e.key
        /\ e.value = JSONstringify(gHistory[n].value)

\* C36 (geocodeLocation): an entry is written only by the step that follows
\* a provider call that returned a coordinate, and holds that coordinate
\* under the key of the call's text; a call whose provider call throws or
\* gives null leaves the cache as it was; so every geocode:<text> entry
\* was returned by a provider call for that text.
C36_WrittenOnlyForCoordinates ==
    /\ [](\A e \in cache : FetchedFor(e))
    /\ [][/\ WritesEntry
             => /\ ProviderGaveCoordinate
                /\ cache' \ cache
                      = {[key |-> GeocodeKey(location),
                          value |-> JSONstringify(gAnswer.result),
                          ttl |-> GeocodeTTL]}
          /\ (gPc = "provider" /\ gPc' = "idle") => cache' = cache]_vars

\* a call that could not read the store, and whose provider call threw, ends
\* beside the entry that an earlier call stored for its text
C36_Witness ==
    /\ gPc = "idle"
    /\ gCalls > 0
    /\ gAnswer # null
    /\ "result" \notin DOMAIN gAnswer
    /\ ~gLookupOk
    /\ \E e \in cache : e.key = GeocodeKey(location) /\ FetchedFor(e)

\* ... and a call whose provider call found nothing ends without an entry
C36_NothingFoundNothingStored ==
    /\ gPc = "idle"
    /\ gCalls > 0
    /\ gAnswer = Returned(null)
    /\ cache = {}

\* C36 (reverseGeocode), checked under ReverseSpec: an entry is written only
\* after a provider call that returned an address, and a call whose provider
\* call throws or gives null leaves the cache as it was
C36_ReverseWrittenOnlyForAddresses ==
    [][/\ WritesEntry
          => /\ ProviderGaveCoordinate
             /\ cache' \ cache
                   = {[key |-> ReverseKey(location.lat, location.lng),
                       value |-> JSONstringify(gAnswer.result),
                       ttl |-> GeocodeTTL]}
       /\ (gPc = "provider" /\ gPc' = "idle") => cache' = cache]_vars

C36_ReverseNothingStored ==
    /\ gPc = "idle"
    /\ gCalls > 0
    /\ gAnswer # null
    /\ "result" \notin DOMAIN gAnswer
    /\ cache = {}

\* C36 (getHotelReviews), checked under ReviewsSpec: an entry is written only
\* after a provider call that returned a list that is not empty, and a call
\* whose provider call throws or gives the empty list leaves the cache as it
\* was
C36_ReviewsWrittenOnlyForLists ==
    [][/\ WritesEntry
          => /\ gPc = "store"
             /\ gCalls > 0
             /\ "result" \in DOMAIN gAnswer
             /\ Len(gAnswer.result) > 0
             /\ cache' \ cache
                   = {[key |-> ReviewsKey(location),
                       value |-> JSONstringify(gAnswer.result),
                       ttl |-> ReviewsTTL]}
       /\ (gPc = "provider" /\ gPc' = "idle") => cache' = cache]_vars

\* a call whose provider call gave the empty list ends beside the entry of
\* another place
C36_ReviewsEmptyListNotStored ==
    /\ gPc = "idle"
    /\ gCalls > 0
    /\ gAnswer = Returned(<<>>)
    /\ gOutcome = Returned(<<>>)
    /\ cache # {}
    /\ \A e \in cache : e.key # ReviewsKey(location)

(***************************************************************************)
(* The pairing of pricing records within one result, checked under         *)
(* BatchSpec.                                                              *)
(***************************************************************************)

\* C37 as stated: no two available hotels of one result carry the same
\* bookingId.
C37_BookingIdsDistinct ==
    pc = "returned" =>
        \A k, l \in DOMAIN response.hotels :
            (k # l /\ response.hotels[k].available /\ response.hotels[l].available)
                => response.hotels[k].bookingId # response.hotels[l].bookingId

\* two discovery hotels of one batch, of one name at two addresses, are both
\* paired with the one pricing record of that name
C37_OneRecordPairedTwice ==
    /\ MissAnswered
    /\ Len(batchLog) = 1
    /\ \E k, l \in DOMAIN response.hotels :
          /\ response.hotels[k].available
          /\ response.hotels[l].available
          /\ response.hotels[k].bookingId = response.hotels[l].bookingId
          /\ response.hotels[k].id # response.hotels[l].id
          /\ DedupKey(response.hotels[k]) # DedupKey(response.hotels[l])

\* what does hold: a hotel of the result carries the id of the record that
\* findBestBookingMatch gives for it among the records of its batch,
\* whatever the other hotels of the batch are paired with
C37_PairedByItsOwnMatch ==
    MissAnswered =>
        \A p \in DOMAIN googleHotels :
            LET paired == IF LogOf(p).failed THEN null
                          ELSE findBestBookingMatch(googleHotels[p], LogOf(p).results)
            IN  \A e \in Range(response.hotels) :
                    (e.id = googleHotels[p].id /\ paired # null)
                        => e.available /\ e.bookingId = paired.id

(***************************************************************************)
(* Termination of searchHotels, checked under TerminationSpec, and of the  *)
(* three retry loops, checked under RetrySpec.                             *)
(***************************************************************************)

\* a request is under way
Running == pc \notin {"idle", "returned", "thrown"}

\* ceil(n / BATCH_SIZE)
Batches(n) == (n + BATCH_SIZE - 1) \div BATCH_SIZE

\* C38: every searchHotels request that is under way eventually returns or
\* throws, when every call that is made is answered and every timer that is
\* set fires; one run of makeBookingAPIRequest never makes more than
\* MAX_RETRIES + 1 calls, whatever the provider answers; and the batch loop
\* of a request that misses the cache runs ceil(N / BATCH_SIZE) times.
C38_EveryRequestTerminates ==
    /\ Running ~> (pc \in {"returned", "thrown"})
    /\ [](Len(rResponses) <= MAX_RETRIES + 1)
    /\ [](Len(batchLog) <= Batches(Len(googleHotels)))
    /\ [](MissAnswered => Len(batchLog) = Batches(Len(googleHotels)))

\* a request for the longest list has returned after its batches, of which
\* the first was priced and the last failed
C38_Witness ==
    /\ MissAnswered
    /\ Len(googleHotels) = MaxHotels
    /\ Len(batchLog) = Batches(MaxHotels)
    /\ Len(batchLog) > 1
    /\ batchLog[Len(batchLog)].failed
    /\ ~batchLog[1].failed

\* the provider has answered 429 to every call of the details request of the
\* last batch, and the request has thrown
C38_RateLimitedForever ==
    /\ pc = "details"
    /\ rPc = "thrown"
    /\ Len(rResponses) = MAX_RETRIES + 1
    /\ \A n \in DOMAIN rResponses : rResponses[n].http = 429
    /\ Len(batchLog) = Batches(Len(googleHotels)) - 1
    /\ Len(batchLog) > 0

\* the calls one run of a retry loop may make
CallBudget == IF rImpl = "pricing" THEN MAX_RETRIES + 1 ELSE maxRetries

\* what a retry loop has left: two for each call not yet made, one for a
\* wait under way
RetryMeasure ==
    2 * (CallBudget - Len(rResponses)) + (IF rPc = "wait" THEN 1 ELSE 0)

\* C38 (the three retry loops), checked under RetrySpec: every step of a loop,
\* an answer of the provider or the end of a wait, takes from what the loop
\* has left, which never falls below zero; so a loop makes at most maxRetries
\* calls (callGoogleGeocodingAPI, fetchFromGooglePlaces) or MAX_RETRIES + 1
\* calls (makeBookingAPIRequest) and then has returned or thrown
C38_RetryLoopsStop ==
    /\ [][RetryMeasure' < RetryMeasure]_vars
    /\ [](RetryMeasure >= 0)
    /\ [](rPc \in {"call", "wait", "returned", "thrown"})

\* callGoogleGeocodingAPI has thrown after three answers 429
C38_GeocodingRateLimitedForever ==
    /\ rImpl = "geocoding"
    /\ rPc = "thrown"
    /\ Len(rResponses) = maxRetries
    /\ \A n \in DOMAIN rResponses :
          rResponses[n].kind = "http" /\ rResponses[n].http = 429

====
